---- MODULE Spec2Model ----
(***************************************************************************)
(* Model of the Word-to-PDF batch converter: the parallel batch processor  *)
(* (converters/parallel_processor.py), the single-document converter       *)
(* (converters/document_converter.py, converters/pdf_generator.py) and the *)
(* file validator it uses for pre-validation (validators/file_validator.py)*)
(***************************************************************************)
EXTENDS Integers, Sequences, FiniteSets, TLC

(***************************************************************************)
(* Bounds of the model.                                                    *)
(***************************************************************************)
MaxFiles == 3         \* longest input_files list handed to process_files
MaxWorkersArg == 2    \* largest max_workers a processor is built with
MaxTotalFiles == 3    \* input files handed to one processor over all its calls
MaxClock == 1         \* largest reading of the clock
MaxConvCalls == 3     \* convert_document calls made on one DocumentConverter
MaxBatchFiles == 3    \* longest list of paths written out for validate_batch
MaxEnvSet == 1        \* environment variables set at once (the tests' environment apart)
MaxAssignments == 1   \* assignments made to the attributes of one Config
MaxSetups == 2        \* setup_logger calls the program makes itself
MaxLogCalls == 2      \* records logged

(***************************************************************************)
(* Program constants.                                                      *)
(***************************************************************************)
max_file_size == 104857600
max_files_per_batch == 100

None == -1            \* Python's None where a number may stand

(***************************************************************************)
(* Files.  A path is its directory, stem and suffix; what the disk holds   *)
(* at a path is a record of the properties the code reads.                 *)
(***************************************************************************)
Path(d, s, e) == [dir |-> d, stem |-> s, ext |-> e]

Attrs(ex, rd, sz, mime, content) ==
    [exists |-> ex, readable |-> rd, size |-> sz, mime |-> mime, content |-> content]

DocxMime == "application/vnd.openxmlformats-officedocument.wordprocessingml.document"

\* content: what happens when the file is handed to the converter
\*   "ok"            loads, extracts and renders
\*   "unloadable"    python-docx / antiword cannot open it
\*   "unextractable" reading its content raises
\*   "unrenderable"  reportlab raises while building the PDF
\*   "fatal"         the worker process converting it dies, so the executor
\*                   delivers an exception instead of the task's result
Contents == {"ok", "unloadable", "unextractable", "unrenderable", "fatal"}

GoodDocx  == Path("d1", "a", ".docx")
GoodDoc   == Path("d2", "a", ".doc")
ZipDocx   == Path("d1", "b", ".docx")
TextFile  == Path("d1", "c", ".txt")
FatalDocx == Path("d1", "k", ".docx")

Paths == {GoodDocx, GoodDoc, ZipDocx, TextFile, FatalDocx}

Disk(p) ==
    CASE p = GoodDocx  -> Attrs(TRUE, TRUE, 20000, DocxMime, "ok")
      [] p = GoodDoc   -> Attrs(TRUE, TRUE, 30000, "application/msword", "ok")
      [] p = ZipDocx   -> Attrs(TRUE, TRUE, 500, "application/zip", "unloadable")
      [] p = TextFile  -> Attrs(TRUE, TRUE, 40, "text/plain", "unloadable")
      [] p = FatalDocx -> Attrs(TRUE, TRUE, 90000, DocxMime, "fatal")

(***************************************************************************)
(* config.settings.Config                                                  *)
(***************************************************************************)
supported_extensions == {".doc", ".docx"}

\* str.lower() on the suffixes that occur
Lower(e) ==
    CASE e = ".DOCX" -> ".docx"
      [] e = ".Doc"  -> ".doc"
      [] OTHER       -> e

is_supported_extension(extension) ==
    Lower(extension) \in {Lower(ext) : ext \in supported_extensions}

(***************************************************************************)
(* validators.file_validator.FileValidator                                 *)
(***************************************************************************)
\* magic.from_file raising is modelled by the mime "error".
_is_valid_file(p, a) ==
    IF a.mime = "error" THEN TRUE
    ELSE IF Lower(p.ext) = ".docx" THEN a.mime \in {DocxMime, "application/zip"}
    ELSE IF Lower(p.ext) = ".doc" THEN a.mime \in {"application/msword", "application/vnd.ms-word"}
    ELSE TRUE

\* Path(file_path).exists() raises OSError when the path cannot be examined (a
\* directory that may not be searched, a name that is too long); "locked" is
\* such a directory.
StatRaises(p) == p.dir = "locked"

\* validate_file with the size checked before the extension
validate_file_size_first(p, a) ==
    IF StatRaises(p) THEN <<FALSE, "Error de validacion">>
    ELSE IF ~a.exists THEN <<FALSE, "Archivo no encontrado">>
    ELSE IF ~a.readable THEN <<FALSE, "Sin permisos de lectura">>
    ELSE IF ~(a.size <= max_file_size) THEN <<FALSE, "Archivo demasiado grande">>
    ELSE IF ~is_supported_extension(Lower(p.ext)) THEN <<FALSE, "Extension no soportada">>
    ELSE IF ~_is_valid_file(p, a) THEN <<FALSE, "Archivo corrupto o no valido">>
    ELSE <<TRUE, "">>

\* lines 21-57.  The pair (es_valido, mensaje_error); the empty message
\* stands for None.  An exception raised by a check is caught at line 55.
validate_file(p, a) ==
    IF StatRaises(p) THEN <<FALSE, "Error de validacion">>
    ELSE IF ~a.exists THEN <<FALSE, "Archivo no encontrado">>
    ELSE IF ~a.readable THEN <<FALSE, "Sin permisos de lectura">>
    ELSE IF ~is_supported_extension(Lower(p.ext)) THEN <<FALSE, "Extension no soportada">>
    ELSE IF ~(a.size <= max_file_size) THEN <<FALSE, "Archivo demasiado grande">>
    ELSE IF ~_is_valid_file(p, a) THEN <<FALSE, "Archivo corrupto o no valido">>
    ELSE <<TRUE, "">>

(***************************************************************************)
(* Exceptions (utils/exceptions.py) and outcomes of calls.                 *)
(***************************************************************************)
Return(v) == [kind |-> "return", val |-> v, exc |-> "", msg |-> ""]
Raise(t, m) == [kind |-> "raise", val |-> FALSE, exc |-> t, msg |-> m]

\* the classes an exception of class t is an instance of
Bases(t) ==
    CASE t = "PDFGenerationError" -> {"PDFGenerationError", "ConversionError", "Exception"}
      [] t = "ConversionError"    -> {"ConversionError", "Exception"}
      [] OTHER                    -> {t, "Exception"}

IsInstance(t, class) == class \in Bases(t)

(***************************************************************************)
(* converters.pdf_generator.PDFGenerator                                   *)
(***************************************************************************)
generate_pdf(a) ==
    IF a.content = "unrenderable"
    THEN Raise("PDFGenerationError", "Error generando PDF")
    ELSE Return(TRUE)

(***************************************************************************)
(* converters.document_converter.DocumentConverter                        *)
(***************************************************************************)
_load_document(p, a) ==
    IF Lower(p.ext) \notin {".doc", ".docx"}
    THEN Raise("ConversionError", "No se pudo cargar el documento")
    ELSE IF a.content = "unloadable"
    THEN Raise("ConversionError", "No se pudo cargar el documento")
    ELSE Return(TRUE)

_extract_content(a) ==
    IF a.content = "unextractable"
    THEN Raise("ConversionError", "Error extrayendo contenido")
    ELSE Return(TRUE)

\* The body of the try block of convert_document: the outcome and the
\* changes it makes to conversion_stats on the way.
ConvertBody(p, a, dirOk) ==
    IF ~a.exists
    THEN [out |-> Raise("ConversionError", "Archivo de entrada no encontrado"), ds |-> 0, df |-> 0]
    ELSE IF ~dirOk
    THEN [out |-> Raise("OSError", "mkdir"), ds |-> 0, df |-> 0]
    ELSE IF _load_document(p, a).kind = "raise"
    THEN [out |-> _load_document(p, a), ds |-> 0, df |-> 0]
    ELSE IF _extract_content(a).kind = "raise"
    THEN [out |-> _extract_content(a), ds |-> 0, df |-> 0]
    ELSE IF generate_pdf(a).kind = "raise"
    THEN [out |-> generate_pdf(a), ds |-> 0, df |-> 0]
    ELSE IF generate_pdf(a).val
    THEN [out |-> Return(TRUE), ds |-> 1, df |-> 0]
    ELSE [out |-> Raise("PDFGenerationError", "No se pudo generar el PDF"), ds |-> 0, df |-> 1]

\* a convert_document that opens output_path for writing before it loads the
\* input
OutputWrittenEarly(p, a, dirOk, partial) == a.exists /\ dirOk

\* lines 52-66: the call puts a file at output_path.  generate_pdf is reached
\* once the input was found, the output directory made and the document
\* loaded and read; doc.build writes the file when it succeeds, and may have
\* written part of it (partial) when it raises.
OutputWritten(p, a, dirOk, partial) ==
    /\ a.exists /\ dirOk
    /\ _load_document(p, a).kind = "return"
    /\ _extract_content(a).kind = "return"
    /\ generate_pdf(a).kind = "return" \/ partial

\* convert_document with "except ConversionError" in place of "except Exception"
convert_document_narrow(p, a, dirOk) ==
    LET b == ConvertBody(p, a, dirOk) IN
    IF b.out.kind = "raise" /\ IsInstance(b.out.exc, "ConversionError")
    THEN [out |-> Raise("ConversionError", "Error de conversion"),
          ds |-> b.ds, df |-> b.df + 1]
    ELSE b

\* convert_document that counts a failure of generate_pdf at line 69 and
\* again at line 75
convert_document_counts_twice(p, a, dirOk) ==
    LET b == ConvertBody(p, a, dirOk) IN
    IF b.out.kind = "raise" /\ IsInstance(b.out.exc, "Exception")
    THEN [out |-> Raise("ConversionError", "Error de conversion"),
          ds |-> b.ds,
          df |-> IF b.out.exc = "PDFGenerationError" THEN b.df + 2 ELSE b.df + 1]
    ELSE b

\* except Exception as e: count the failure and raise ConversionError
convert_document(p, a, dirOk) ==
    LET b == ConvertBody(p, a, dirOk) IN
    IF b.out.kind = "raise" /\ IsInstance(b.out.exc, "Exception")
    THEN [out |-> Raise("ConversionError", "Error de conversion"),
          ds |-> b.ds, df |-> b.df + 1]
    ELSE b

(***************************************************************************)
(* converters.parallel_processor.ParallelProcessor: the task run in a      *)
(* worker and the output path given to it.                                 *)
(***************************************************************************)
\* (success, output_path, error_msg)
_convert_single_file(p, a, dirOk, output_path) ==
    LET r == convert_document(p, a, dirOk).out IN
    IF r.kind = "return"
    THEN IF r.val THEN <<TRUE, output_path, "">>
                  ELSE <<FALSE, output_path, "Error en conversion">>
    ELSE <<FALSE, output_path, r.msg>>

_get_output_path(p, output_dir) == Path(output_dir, p.stem, ".pdf")

(***************************************************************************)
(* State.                                                                  *)
(***************************************************************************)
VARIABLES
    max_workers,   \* ParallelProcessor.max_workers
    stats,         \* ParallelProcessor.stats
    pc,            \* "idle", or where process_files is: "submit", "collect", "returned"
    input_files,   \* argument of the current (or last) process_files call
    output_dir,    \* argument of the current (or last) process_files call
    valid_files,   \* result of _validate_input_files in that call
    task,          \* state of each submitted future: "new", "queued", "running", "done", "recorded"
    fut,           \* what each future holds once done
    outp,          \* output_path handed to each task
    submits,       \* number of executor.submit calls made for each validated entry
    results,       \* the results dict _process_parallel is building
    handled,       \* input files handed to process_files so far
    returned,      \* what the last process_files call returned
    stats0,        \* the success and failure counters when the current call began
    now,           \* last reading of time.time()
    dirs,          \* the output directories that Path.mkdir has created
    fresh,         \* history, kept under SpecReset: no process_files call has returned
                   \* since the constructor or reset_stats ran
    conv,          \* DocumentConverter.conversion_stats of a converter used directly
    convCalls,     \* convert_document calls made on it
    convSince,     \* convert_document calls made on it since it was constructed or reset
    lastConv,      \* outcome of the last convert_document call
    lastSingle,    \* result of the last _convert_single_file call
    pdfs,          \* the output paths at which a file exists
    vcall,         \* the last call made on a FileValidator or BatchValidator
    cfg,           \* the attributes of a Config object
    cfgSrc,        \* config.yaml and the environment the process runs with
    cfgOp,         \* the last operation on the Config object and what it gave
    assigned,      \* assignments made to attributes of the Config object
    loggers,       \* the handlers and level of each named logging.Logger
    logged,        \* the records each log file and the console have received
    lastLog,       \* the last record logged
    logCalls,      \* logging calls made so far
    setups,        \* setup_logger calls made by the program so far
    cmd            \* the batch command of cli.py: where it is, and its arguments

procVars == <<max_workers, stats, pc, input_files, output_dir, valid_files, task, fut,
              outp, submits, results, returned, stats0, now, handled, fresh, dirs>>
convVars == <<conv, convCalls, convSince, lastConv, lastSingle, pdfs>>
valVars == <<vcall>>
cfgVars == <<cfg, cfgSrc, cfgOp, assigned>>
logVars == <<loggers, logged, lastLog, logCalls, setups>>
cliVars == <<cmd>>
libVars == <<valVars, cfgVars, logVars, cliVars>>
vars == <<procVars, convVars, libVars>>

(***************************************************************************)
(* ParallelProcessor: statistics and results.                              *)
(***************************************************************************)
InitStats ==
    [total_files |-> 0, processed_files |-> 0, successful_conversions |-> 0,
     failed_conversions |-> 0, start_time |-> None, end_time |-> None]

Counters(st) ==
    [successful_conversions |-> st.successful_conversions,
     failed_conversions |-> st.failed_conversions]

\* a quotient num / den kept exact
Rat(n, d) == [num |-> n, den |-> d]
RatEq(r, n, d) == r.num * d = n * r.den
RatLeq(r, n) == r.num <= n * r.den

_calculate_final_stats(st) ==
    [total_files |-> st.total_files,
     processed_files |-> st.processed_files,
     successful_conversions |-> st.successful_conversions,
     failed_conversions |-> st.failed_conversions,
     success_rate |-> IF st.processed_files > 0
                      THEN Rat(st.successful_conversions * 100, st.processed_files)
                      ELSE Rat(0, 1),
     total_time |-> IF st.start_time = None \/ st.end_time = None
                    THEN 0
                    ELSE st.end_time - st.start_time]

\* _create_error_result that reports the counters of the processor
_create_error_result_with_counters(st, error_message) ==
    [kind |-> "error",
     successful |-> <<>>,
     failed |-> <<>>,
     errors |-> <<[file |-> "", text |-> error_message]>>,
     stats |-> [total_files |-> st.total_files, processed_files |-> 0,
                successful_conversions |-> st.successful_conversions,
                failed_conversions |-> st.failed_conversions,
                success_rate |-> Rat(0, 1), total_time |-> 0]]

_create_error_result(st, error_message) ==
    [kind |-> "error",
     successful |-> <<>>,
     failed |-> <<>>,
     errors |-> <<[file |-> "", text |-> error_message]>>,
     stats |-> [total_files |-> st.total_files, processed_files |-> 0,
                successful_conversions |-> 0, failed_conversions |-> 0,
                success_rate |-> Rat(0, 1), total_time |-> 0]]

EmptyResults == [successful |-> <<>>, failed |-> <<>>, errors |-> <<>>]

NoReturn ==
    [kind |-> "none", successful |-> <<>>, failed |-> <<>>, errors |-> <<>>,
     stats |-> _create_error_result(InitStats, "").stats]

\* _validate_input_files that rejects nothing
_validate_input_files_all(files) == files

_validate_input_files(files) ==
    SelectSeq(files, LAMBDA p : validate_file(p, Disk(p))[1])

\* Path(output_dir).mkdir(parents=True, exist_ok=True) raises when the
\* directory cannot be created (a regular file stands at the path).
MkdirOk(dir) == dir # "blocked"

OutputDirs == {"out", "blocked"}

\* what a future holds
Pending == [kind |-> "pending", val |-> <<>>, exc |-> ""]
Result(v) == [kind |-> "result", val |-> v, exc |-> ""]
Exception(t) == [kind |-> "exception", val |-> <<>>, exc |-> t]

\* time.time(): the clock never goes backwards
Readings(t) == {u \in {t, t + 1} : u <= MaxClock}

Tasks == DOMAIN task
Running == {i \in Tasks : task[i] = "running"}

\* sequences of at most n elements of S
RECURSIVE SeqsUpTo(_, _)
SeqsUpTo(S, n) ==
    IF n = 0 THEN {<<>>}
    ELSE LET shorter == SeqsUpTo(S, n - 1) IN
         shorter \cup {Append(q, x) : q \in {r \in shorter : Len(r) = n - 1}, x \in S}

(***************************************************************************)
(* ParallelProcessor.process_files, step by step.                          *)
(***************************************************************************)
\* process_files that creates the output directory before it validates
ProcessFilesNoValidMkdirFirst(files, dir) ==
    /\ pc = "idle" /\ handled + Len(files) <= MaxTotalFiles
    /\ handled' = handled + Len(files)
    /\ _validate_input_files(files) = <<>>
    /\ \E t \in Readings(now) :
         LET st == [stats EXCEPT !.total_files = Len(files), !.start_time = t] IN
         /\ now' = t
         /\ stats' = st
         /\ stats0' = Counters(stats)
         /\ returned' = _create_error_result(st, "No hay archivos validos para procesar")
    /\ input_files' = files /\ output_dir' = dir /\ valid_files' = <<>>
    /\ task' = <<>> /\ fut' = <<>> /\ outp' = <<>> /\ submits' = <<>>
    /\ results' = EmptyResults
    /\ pc' = "returned"
    /\ dirs' = IF MkdirOk(dir) THEN dirs \cup {dir} ELSE dirs
    /\ UNCHANGED <<max_workers, fresh, convVars, libVars>>

\* lines 48-62: no input passes pre-validation
ProcessFilesNoValid(files, dir) ==
    /\ pc = "idle" /\ handled + Len(files) <= MaxTotalFiles
    /\ handled' = handled + Len(files)
    /\ _validate_input_files(files) = <<>>
    /\ \E t \in Readings(now) :
         LET st == [stats EXCEPT !.total_files = Len(files), !.start_time = t] IN
         /\ now' = t
         /\ stats' = st
         /\ stats0' = Counters(stats)
         /\ returned' = _create_error_result(st, "No hay archivos validos para procesar")
    /\ input_files' = files /\ output_dir' = dir /\ valid_files' = <<>>
    /\ task' = <<>> /\ fut' = <<>> /\ outp' = <<>> /\ submits' = <<>>
    /\ results' = EmptyResults
    /\ pc' = "returned"
    /\ UNCHANGED <<max_workers, fresh, dirs, convVars, libVars>>

\* lines 48-79: the output directory or the pool cannot be created
ProcessFilesRaises(files, dir) ==
    /\ pc = "idle" /\ handled + Len(files) <= MaxTotalFiles
    /\ handled' = handled + Len(files)
    /\ _validate_input_files(files) # <<>>
    /\ ~MkdirOk(dir) \/ max_workers < 1
    /\ \E t \in Readings(now) : \E t2 \in Readings(t) :
         LET st == [stats EXCEPT !.total_files = Len(files), !.start_time = t,
                                 !.end_time = t2] IN
         /\ now' = t2
         /\ stats' = st
         /\ stats0' = Counters(stats)
         /\ returned' = _create_error_result(st, "Error de procesamiento")
    /\ input_files' = files /\ output_dir' = dir
    /\ valid_files' = _validate_input_files(files)
    /\ task' = <<>> /\ fut' = <<>> /\ outp' = <<>> /\ submits' = <<>>
    /\ results' = EmptyResults
    /\ pc' = "returned"
    /\ dirs' = IF MkdirOk(dir) THEN dirs \cup {dir} ELSE dirs
    /\ UNCHANGED <<max_workers, fresh, convVars, libVars>>

\* lines 48-65, 114-127: validation passed, directory and pool created
ProcessFilesBegin(files, dir) ==
    /\ pc = "idle" /\ handled + Len(files) <= MaxTotalFiles
    /\ handled' = handled + Len(files)
    /\ _validate_input_files(files) # <<>>
    /\ MkdirOk(dir) /\ max_workers >= 1
    /\ \E t \in Readings(now) :
         /\ now' = t
         /\ stats' = [stats EXCEPT !.total_files = Len(files), !.start_time = t]
    /\ stats0' = Counters(stats)
    /\ input_files' = files /\ output_dir' = dir
    /\ valid_files' = _validate_input_files(files)
    /\ task' = [i \in 1..Len(_validate_input_files(files)) |-> "new"]
    /\ fut' = [i \in 1..Len(_validate_input_files(files)) |-> Pending]
    /\ outp' = <<>>
    /\ submits' = [i \in 1..Len(_validate_input_files(files)) |-> 0]
    /\ results' = EmptyResults
    /\ returned' = NoReturn
    /\ pc' = "submit"
    /\ dirs' = dirs \cup {dir}
    /\ UNCHANGED <<max_workers, fresh, convVars, libVars>>

\* lines 128-131: one round of the submission loop
Submit ==
    /\ pc = "submit"
    /\ LET i == Len(outp) + 1 IN
       /\ outp' = Append(outp, _get_output_path(valid_files[i], output_dir))
       /\ task' = [task EXCEPT ![i] = "queued"]
       /\ submits' = [submits EXCEPT ![i] = @ + 1]
       /\ pc' = IF i = Len(valid_files) THEN "collect" ELSE "submit"
    /\ UNCHANGED <<max_workers, stats, input_files, output_dir, valid_files, fut,
                   results, returned, stats0, now, handled, fresh, dirs, convVars, libVars>>

\* a pool that starts a process for every queued call
WorkerStartUnbounded(i) ==
    /\ i \in Tasks /\ task[i] = "queued"
    /\ \A j \in Tasks : j < i => task[j] # "queued"
    /\ task' = [task EXCEPT ![i] = "running"]
    /\ UNCHANGED <<max_workers, stats, pc, input_files, output_dir, valid_files, fut,
                   outp, submits, results, returned, stats0, now, handled, fresh, dirs, convVars, libVars>>

\* a pool that never uses its last process
WorkerStartKeepsSpare(i) ==
    /\ i \in Tasks /\ task[i] = "queued"
    /\ \A j \in Tasks : j < i => task[j] # "queued"
    /\ Cardinality(Running) + 1 < max_workers
    /\ task' = [task EXCEPT ![i] = "running"]
    /\ UNCHANGED <<max_workers, stats, pc, input_files, output_dir, valid_files, fut,
                   outp, submits, results, returned, stats0, now, handled, fresh, dirs, convVars, libVars>>

\* line 125: a free process of the pool takes the oldest queued call
WorkerStart(i) ==
    /\ i \in Tasks /\ task[i] = "queued"
    /\ \A j \in Tasks : j < i => task[j] # "queued"
    /\ Cardinality(Running) < max_workers
    /\ task' = [task EXCEPT ![i] = "running"]
    /\ UNCHANGED <<max_workers, stats, pc, input_files, output_dir, valid_files, fut,
                   outp, submits, results, returned, stats0, now, handled, fresh, dirs, convVars, libVars>>

\* lines 169-190 in the worker: the future gets the task's result (the output
\* directory exists: line 122 created it)
WorkerOutcome(p, output_path) ==
    IF Disk(p).content = "fatal"
    THEN Exception("BrokenProcessPool")
    ELSE Result(_convert_single_file(p, Disk(p), TRUE, output_path))

WorkerFinish(i) ==
    /\ i \in Tasks /\ task[i] = "running"
    /\ task' = [task EXCEPT ![i] = "done"]
    /\ fut' = [fut EXCEPT ![i] = WorkerOutcome(valid_files[i], outp[i])]
    /\ UNCHANGED <<max_workers, stats, pc, input_files, output_dir, valid_files,
                   outp, submits, results, returned, stats0, now, handled, fresh, dirs, convVars, libVars>>

\* Recorded without the failed entry of a future that raised
RecordedDropsRaised(res, file_path, f) ==
    IF f.kind = "result" /\ f.val[1]
    THEN [res EXCEPT !.successful = Append(@, [input |-> file_path, output |-> f.val[2]])]
    ELSE IF f.kind = "result"
    THEN [res EXCEPT !.failed = Append(@, [input |-> file_path, error |-> f.val[3]]),
                     !.errors = Append(@, [file |-> file_path, text |-> f.val[3]])]
    ELSE [res EXCEPT !.errors = Append(@, [file |-> file_path, text |-> "Error inesperado"])]

\* Recorded with the errors list assigned instead of appended to
RecordedLastError(res, file_path, f) ==
    IF f.kind = "result" /\ f.val[1]
    THEN [res EXCEPT !.successful = Append(@, [input |-> file_path, output |-> f.val[2]])]
    ELSE IF f.kind = "result"
    THEN [res EXCEPT !.failed = Append(@, [input |-> file_path, error |-> f.val[3]]),
                     !.errors = <<[file |-> file_path, text |-> f.val[3]]>>]
    ELSE [res EXCEPT !.failed = Append(@, [input |-> file_path, error |-> f.exc]),
                     !.errors = <<[file |-> file_path, text |-> "Error inesperado"]>>]

\* lines 134-162: one round of the as_completed loop
Recorded(res, file_path, f) ==
    IF f.kind = "result" /\ f.val[1]
    THEN [res EXCEPT !.successful = Append(@, [input |-> file_path, output |-> f.val[2]])]
    ELSE IF f.kind = "result"
    THEN [res EXCEPT !.failed = Append(@, [input |-> file_path, error |-> f.val[3]]),
                     !.errors = Append(@, [file |-> file_path, text |-> f.val[3]])]
    ELSE [res EXCEPT !.failed = Append(@, [input |-> file_path, error |-> f.exc]),
                     !.errors = Append(@, [file |-> file_path, text |-> "Error inesperado"])]

Counted(st, f) ==
    IF f.kind = "result" /\ f.val[1]
    THEN [st EXCEPT !.successful_conversions = @ + 1]
    ELSE [st EXCEPT !.failed_conversions = @ + 1]

\* Collect that submits a failed task once more instead of recording it
CollectRetry(i) ==
    /\ pc = "collect"
    /\ i \in Tasks /\ task[i] = "done"
    /\ IF ~(fut[i].kind = "result" /\ fut[i].val[1]) /\ submits[i] < 2
       THEN /\ task' = [task EXCEPT ![i] = "queued"]
            /\ submits' = [submits EXCEPT ![i] = @ + 1]
            /\ UNCHANGED <<results, stats>>
       ELSE /\ results' = Recorded(results, valid_files[i], fut[i])
            /\ stats' = Counted(stats, fut[i])
            /\ task' = [task EXCEPT ![i] = "recorded"]
            /\ UNCHANGED submits
    /\ UNCHANGED <<max_workers, pc, input_files, output_dir, valid_files, fut, outp,
                   returned, stats0, now, handled, fresh, dirs, convVars, libVars>>

Collect(i) ==
    /\ pc = "collect"
    /\ i \in Tasks /\ task[i] = "done"
    /\ results' = Recorded(results, valid_files[i], fut[i])
    /\ stats' = Counted(stats, fut[i])
    /\ task' = [task EXCEPT ![i] = "recorded"]
    /\ UNCHANGED <<max_workers, pc, input_files, output_dir, valid_files, fut, outp,
                   submits, returned, stats0, now, handled, fresh, dirs, convVars, libVars>>

\* a collection loop that stops at the first failure
AllCollectedOrFailed ==
    \/ \A i \in Tasks : task[i] = "recorded"
    \/ \E i \in Tasks : task[i] = "recorded" /\ ~(fut[i].kind = "result" /\ fut[i].val[1])

\* lines 164-167 and 67-74: every future was collected
AllCollected == \A i \in Tasks : task[i] = "recorded"

ProcessFilesReturn ==
    /\ pc = "collect"
    /\ AllCollected
    /\ \E t \in Readings(now) :
         /\ now' = t
         /\ stats' = [stats EXCEPT !.end_time = t, !.processed_files = Len(valid_files)]
    /\ returned' = [kind |-> "normal",
                    successful |-> results.successful,
                    failed |-> results.failed,
                    errors |-> results.errors,
                    stats |-> _calculate_final_stats(stats)]
    /\ pc' = "returned"
    /\ UNCHANGED <<max_workers, input_files, output_dir, valid_files, task, fut, outp,
                   submits, results, stats0, handled, fresh, dirs, convVars, libVars>>

\* the caller is done with the result it was given (cli.py lines 166-169)
Released ==
    /\ pc = "returned"
    /\ pc' = "idle"
    /\ input_files' = <<>> /\ output_dir' = "out" /\ valid_files' = <<>>
    /\ task' = <<>> /\ fut' = <<>> /\ outp' = <<>> /\ submits' = <<>>
    /\ results' = EmptyResults
    /\ returned' = NoReturn
    /\ stats0' = Counters(InitStats)
    /\ UNCHANGED <<max_workers, stats, now, handled, dirs, convVars, libVars>>

Release == Released /\ UNCHANGED fresh

\* the same step, noted in the history: a call has returned
ReleaseNoted == Released /\ fresh' = FALSE

\* lines 310-318
set_max_workers(n) ==
    /\ pc = "idle" /\ handled < MaxTotalFiles
    /\ n # max_workers
    /\ max_workers' = n
    /\ UNCHANGED <<stats, pc, input_files, output_dir, valid_files, task, fut, outp,
                   submits, results, returned, stats0, now, handled, fresh, dirs, convVars, libVars>>

\* reset_stats that keeps the number of processed files
reset_stats_keeps_processed ==
    /\ pc = "idle" /\ handled < MaxTotalFiles
    /\ stats # InitStats
    /\ stats' = [InitStats EXCEPT !.processed_files = stats.processed_files]
    /\ UNCHANGED <<max_workers, pc, input_files, output_dir, valid_files, task, fut, outp,
                   submits, results, returned, stats0, now, handled, dirs, convVars, libVars>>

\* lines 320-329
reset_stats_body ==
    /\ pc = "idle" /\ handled < MaxTotalFiles
    /\ stats # InitStats
    /\ stats' = InitStats
    /\ UNCHANGED <<max_workers, pc, input_files, output_dir, valid_files, task, fut, outp,
                   submits, results, returned, stats0, now, handled, dirs, convVars, libVars>>

reset_stats == reset_stats_body /\ UNCHANGED fresh

\* the same step, noted in the history: reset_stats has run
reset_stats_noted == reset_stats_body /\ fresh' = TRUE

(***************************************************************************)
(* validators.batch_validator.BatchValidator and the FileValidator it      *)
(* holds, used directly.                                                   *)
(***************************************************************************)
NoPath == Path("", "", "")
Missing == Path("d1", "m", ".docx")        \* no file stands at this path
Unvalidatable == Path("d3", "u", ".docx")  \* validating this path raises

\* the decimal digits of a number, for the names of the files of a large
\* directory
Digit(i) ==
    CASE i = 0 -> "0" [] i = 1 -> "1" [] i = 2 -> "2" [] i = 3 -> "3" [] i = 4 -> "4"
      [] i = 5 -> "5" [] i = 6 -> "6" [] i = 7 -> "7" [] i = 8 -> "8" [] i = 9 -> "9"

RECURSIVE Numeral(_)
Numeral(n) == IF n < 10 THEN Digit(n) ELSE Numeral(n \div 10) \o Digit(n % 10)

\* the n-th Word document of the directory "big"
Numbered(n) == Path("big", "f" \o Numeral(n), ".docx")

\* what the disk holds at a path, the paths where nothing stands included
DiskAt(p) ==
    IF p \in Paths THEN Disk(p)
    ELSE IF p.dir = "big" THEN Attrs(TRUE, TRUE, 20000, DocxMime, "ok")
    ELSE Attrs(FALSE, FALSE, 0, "", "ok")

\* line 46: the call self.file_validator.validate_file(file_path).  It comes
\* back with validate_file's pair, or raises (the case lines 54-57 handle).
file_validator_validate_file(file_path) ==
    IF file_path = Unvalidatable
    THEN Raise("Exception", "Error inesperado")
    ELSE Return(validate_file(file_path, DiskAt(file_path)))

EmptyValidation == [valid |-> <<>>, invalid |-> <<>>, errors |-> <<>>]

\* a loop body that gives up the path whose validation raised
ValidateOneDropsRaised(acc, file_path) ==
    LET r == file_validator_validate_file(file_path) IN
    IF r.kind = "return" /\ r.val[1]
    THEN [acc EXCEPT !.valid = Append(@, file_path)]
    ELSE IF r.kind = "return"
    THEN [acc EXCEPT !.invalid = Append(@, file_path),
                     !.errors = Append(@, [file |-> file_path, text |-> r.val[2]])]
    ELSE acc

\* lines 44-57: one round of the loop of validate_batch
ValidateOne(acc, file_path) ==
    LET r == file_validator_validate_file(file_path) IN
    IF r.kind = "return" /\ r.val[1]
    THEN [acc EXCEPT !.valid = Append(@, file_path)]
    ELSE IF r.kind = "return"
    THEN [acc EXCEPT !.invalid = Append(@, file_path),
                     !.errors = Append(@, [file |-> file_path, text |-> r.val[2]])]
    ELSE [acc EXCEPT !.invalid = Append(@, file_path),
                     !.errors = Append(@, [file |-> file_path, text |-> "Error inesperado"])]

\* get_batch_statistics that takes the rate over the valid and error counts
get_batch_statistics_by_errors(validation_result) ==
    LET total_files == Len(validation_result.valid) + Len(validation_result.invalid)
        valid_count == Len(validation_result.valid)
        invalid_count == Len(validation_result.invalid)
    IN  [total_files |-> total_files,
         valid_files |-> valid_count,
         invalid_files |-> invalid_count,
         success_rate |-> IF total_files > 0
                          THEN Rat(valid_count * 100,
                                   valid_count + Len(validation_result.errors))
                          ELSE Rat(0, 1),
         error_count |-> Len(validation_result.errors)]

\* lines 149-171
get_batch_statistics(validation_result) ==
    LET total_files == Len(validation_result.valid) + Len(validation_result.invalid)
        valid_count == Len(validation_result.valid)
        invalid_count == Len(validation_result.invalid)
    IN  [total_files |-> total_files,
         valid_files |-> valid_count,
         invalid_files |-> invalid_count,
         success_rate |-> IF total_files > 0
                          THEN Rat(valid_count * 100, total_files)
                          ELSE Rat(0, 1),
         error_count |-> Len(validation_result.errors)]

\* the arguments of the calls
ValPaths ==
    {Path(d, "a", e) : d \in {"d1", "locked"}, e \in {".docx", ".doc", ".txt", ".DOCX"}}
ValAttrs ==
    {a \in {Attrs(ex, rd, sz, m, "ok") :
               ex \in BOOLEAN, rd \in BOOLEAN,
               sz \in {500, max_file_size, max_file_size + 1},
               m \in {DocxMime, "application/zip", "application/msword",
                      "text/plain", "error"}} :
        a.exists \/ ~a.readable}

BatchPaths == {GoodDocx, TextFile, Missing, Unvalidatable}

\* the list of n paths that repeats the list q
Cycle(q, n) == [i \in 1..n |-> q[((i - 1) % Len(q)) + 1]]

BatchLists ==
    SeqsUpTo(BatchPaths, MaxBatchFiles)
      \cup {Cycle(q, n) : q \in SeqsUpTo(BatchPaths, 2) \ {<<>>},
                          n \in {max_files_per_batch, max_files_per_batch + 1}}

\* validation results written by hand, as the tests do
HandMadeResults ==
    {[valid |-> v, invalid |-> i, errors |-> e] :
        v \in SeqsUpTo({GoodDocx}, MaxBatchFiles),
        i \in SeqsUpTo({TextFile}, MaxBatchFiles),
        e \in SeqsUpTo({[file |-> TextFile, text |-> "Extension no soportada"]}, 1)}

(***************************************************************************)
(* Directories.  What stands at a directory path: whether it exists, is a  *)
(* directory and can be read, and the files Path.rglob("*") finds under    *)
(* it, in the order it yields them.                                        *)
(***************************************************************************)
Directory(ex, isdir, rd, files) ==
    [exists |-> ex, is_dir |-> isdir, readable |-> rd, files |-> files]

NoDirectory == Directory(FALSE, FALSE, FALSE, <<>>)

\* file_validator.py lines 96-121
get_valid_files_in_directory(d) ==
    SelectSeq(d.files, LAMBDA p : validate_file(p, DiskAt(p))[1])

\* file_validator.py lines 59-94
validate_directory(d) ==
    IF ~d.exists THEN <<FALSE, "Directorio no encontrado">>
    ELSE IF ~d.is_dir THEN <<FALSE, "No es un directorio">>
    ELSE IF ~d.readable THEN <<FALSE, "Sin permisos de lectura en directorio">>
    ELSE IF get_valid_files_in_directory(d) = <<>>
    THEN <<FALSE, "No se encontraron archivos validos en">>
    ELSE <<TRUE, "">>

\* sequences of at most n elements of S, none of them twice
Listings(S, n) == {q \in SeqsUpTo(S, n) : \A i, j \in DOMAIN q : q[i] = q[j] => i = j}

\* the directories handed to validate_directory_batch: none, a file, an
\* unreadable one, small ones, and ones with max_files_per_batch valid files
\* and with one more
Directories ==
    {NoDirectory, Directory(TRUE, FALSE, TRUE, <<>>), Directory(TRUE, TRUE, FALSE, <<GoodDocx>>)}
      \cup {Directory(TRUE, TRUE, TRUE, q) :
               q \in Listings({GoodDocx, GoodDoc, TextFile}, MaxBatchFiles)}
      \cup {Directory(TRUE, TRUE, TRUE, [i \in 1..n |-> Numbered(i)] \o tail) :
               n \in {max_files_per_batch, max_files_per_batch + 1},
               tail \in {<<>>, <<TextFile>>}}

\* op: the call made last ("validating" while validate_batch is in its loop);
\* next: the index of the path the loop validates next, 0 when the loop was
\* not entered
NoCall ==
    [op |-> "none", p |-> NoPath, a |-> Attrs(FALSE, FALSE, 0, "", "ok"),
     res |-> <<FALSE, "">>, files |-> <<>>, next |-> 0, result |-> EmptyValidation,
     stats |-> get_batch_statistics(EmptyValidation), dir |-> NoDirectory]

\* file_validator.py lines 21-57
ValidateFile(p, a) ==
    /\ vcall.op # "validating"
    /\ vcall' = [NoCall EXCEPT !.op = "validate_file", !.p = p, !.a = a,
                               !.res = validate_file(p, a)]
    /\ UNCHANGED <<procVars, convVars, cfgVars, logVars, cliVars>>

\* a validate_batch that refuses a batch of max_files_per_batch paths too
ValidateBatchBeginRefusesFull(file_paths) ==
    /\ vcall.op # "validating"
    /\ IF Len(file_paths) >= max_files_per_batch
       THEN vcall' = [NoCall EXCEPT
                        !.op = "validate_batch", !.files = file_paths,
                        !.result = [valid |-> <<>>, invalid |-> file_paths,
                                    errors |-> <<[file |-> NoPath,
                                                  text |-> "Demasiados archivos"]>>]]
       ELSE vcall' = [NoCall EXCEPT !.op = "validating", !.files = file_paths,
                                    !.next = 1]
    /\ UNCHANGED <<procVars, convVars, cfgVars, logVars, cliVars>>

\* batch_validator.py lines 30-41: the lists are empty, and a batch over the
\* limit is returned at once
ValidateBatchBegin(file_paths) ==
    /\ vcall.op # "validating"
    /\ IF Len(file_paths) > max_files_per_batch
       THEN vcall' = [NoCall EXCEPT
                        !.op = "validate_batch", !.files = file_paths,
                        !.result = [valid |-> <<>>, invalid |-> file_paths,
                                    errors |-> <<[file |-> NoPath,
                                                  text |-> "Demasiados archivos"]>>]]
       ELSE vcall' = [NoCall EXCEPT !.op = "validating", !.files = file_paths,
                                    !.next = 1]
    /\ UNCHANGED <<procVars, convVars, cfgVars, logVars, cliVars>>

\* validate_directory_batch that hands every file of the directory to
\* validate_batch
ValidateDirectoryBatchAllFiles(d) ==
    /\ vcall.op # "validating"
    /\ LET is_valid == validate_directory(d)[1]
           error_msg == validate_directory(d)[2]
           found == d.files
       IN  IF ~is_valid
           THEN vcall' = [NoCall EXCEPT
                            !.op = "validate_directory_batch", !.dir = d,
                            !.result = [valid |-> <<>>, invalid |-> <<>>,
                                        errors |-> <<[file |-> NoPath,
                                                      text |-> "Directorio invalido: "
                                                                 \o error_msg]>>]]
           ELSE IF found = <<>>
           THEN vcall' = [NoCall EXCEPT
                            !.op = "validate_directory_batch", !.dir = d,
                            !.result = [valid |-> <<>>, invalid |-> <<>>,
                                        errors |-> <<[file |-> NoPath,
                                                      text |-> "No se encontraron archivos validos en"]>>]]
           ELSE IF Len(found) > max_files_per_batch
           THEN vcall' = [NoCall EXCEPT
                            !.op = "validate_directory_batch", !.dir = d,
                            !.files = found,
                            !.result = [valid |-> <<>>, invalid |-> found,
                                        errors |-> <<[file |-> NoPath,
                                                      text |-> "Demasiados archivos"]>>]]
           ELSE vcall' = [NoCall EXCEPT !.op = "validating", !.dir = d,
                                        !.files = found, !.next = 1]
    /\ UNCHANGED <<procVars, convVars, cfgVars, logVars, cliVars>>

\* batch_validator.py lines 67-99: the directory is validated, its valid
\* files are listed, and validate_batch (lines 30-41 here, its loop in the
\* steps below) is called on them
ValidateDirectoryBatch(d) ==
    /\ vcall.op # "validating"
    /\ LET is_valid == validate_directory(d)[1]
           error_msg == validate_directory(d)[2]
           found == get_valid_files_in_directory(d)
       IN  IF ~is_valid
           THEN vcall' = [NoCall EXCEPT
                            !.op = "validate_directory_batch", !.dir = d,
                            !.result = [valid |-> <<>>, invalid |-> <<>>,
                                        errors |-> <<[file |-> NoPath,
                                                      text |-> "Directorio invalido: "
                                                                 \o error_msg]>>]]
           ELSE IF found = <<>>
           THEN vcall' = [NoCall EXCEPT
                            !.op = "validate_directory_batch", !.dir = d,
                            !.result = [valid |-> <<>>, invalid |-> <<>>,
                                        errors |-> <<[file |-> NoPath,
                                                      text |-> "No se encontraron archivos validos en"]>>]]
           ELSE IF Len(found) > max_files_per_batch
           THEN vcall' = [NoCall EXCEPT
                            !.op = "validate_directory_batch", !.dir = d,
                            !.files = found,
                            !.result = [valid |-> <<>>, invalid |-> found,
                                        errors |-> <<[file |-> NoPath,
                                                      text |-> "Demasiados archivos"]>>]]
           ELSE vcall' = [NoCall EXCEPT !.op = "validating", !.dir = d,
                                        !.files = found, !.next = 1]
    /\ UNCHANGED <<procVars, convVars, cfgVars, logVars, cliVars>>

\* batch_validator.py lines 44-57: the loop validates its next path
ValidateBatchStep ==
    /\ vcall.op = "validating"
    /\ vcall.next <= Len(vcall.files)
    /\ vcall' = [vcall EXCEPT !.result = ValidateOne(@, vcall.files[vcall.next]),
                              !.next = @ + 1]
    /\ UNCHANGED <<procVars, convVars, cfgVars, logVars, cliVars>>

\* batch_validator.py lines 59-65: the loop is over
ValidateBatchReturn ==
    /\ vcall.op = "validating"
    /\ vcall.next > Len(vcall.files)
    /\ vcall' = [vcall EXCEPT !.op = IF vcall.dir = NoDirectory
                                     THEN "validate_batch"
                                     ELSE "validate_directory_batch"]
    /\ UNCHANGED <<procVars, convVars, cfgVars, logVars, cliVars>>

\* batch_validator.py lines 149-171, on the result of the validate_batch call
\* just made or on a result written by hand
GetBatchStatistics(validation_result) ==
    /\ vcall.op # "validating"
    /\ vcall' = [NoCall EXCEPT !.op = "get_batch_statistics",
                               !.result = validation_result,
                               !.stats = get_batch_statistics(validation_result)]
    /\ UNCHANGED <<procVars, convVars, cfgVars, logVars, cliVars>>

InitVal == vcall = NoCall

(***************************************************************************)
(* config.settings.Config: construction from config.yaml and the           *)
(* environment, validate, get_output_path, and load_config.                *)
(***************************************************************************)
\* a directory as pathlib holds it: absolute or not, and its components
Dir(abs, parts) == [abs |-> abs, parts |-> parts]

\* lines 14-39
DefaultConfig ==
    [max_file_size |-> max_file_size,
     supported_extensions |-> supported_extensions,
     output_quality |-> "high",
     max_workers |-> 4,
     timeout |-> 300,
     chunk_size |-> 10,
     log_level |-> "INFO",
     log_file |-> "logs/converter.log",
     log_max_size |-> 10485760,
     log_backup_count |-> 5,
     default_output_dir |-> Dir(FALSE, <<"output">>),
     overwrite_existing |-> FALSE,
     create_subdirs |-> TRUE,
     pdf_compression |-> TRUE,
     pdf_quality |-> 95,
     pdf_metadata |-> TRUE]

hasattr(c, name) == name \in DOMAIN c

\* config.yaml: whether it exists, whether yaml.safe_load reads it, whether
\* what it holds is a mapping, and the sections of the mapping in order
Yaml(exists, loads, isdict, sections) ==
    [exists |-> exists, loads |-> loads, isdict |-> isdict, sections |-> sections]
Section(name, isdict, items) == [name |-> name, isdict |-> isdict, items |-> items]
Item(key, value) == [key |-> key, value |-> value]

NoYaml == Yaml(FALSE, FALSE, FALSE, <<>>)
BrokenYaml == Yaml(TRUE, FALSE, FALSE, <<>>)
ListYaml == Yaml(TRUE, TRUE, FALSE, <<>>)
\* max_workers: 8
FlatYaml == Yaml(TRUE, TRUE, TRUE, <<Section("max_workers", FALSE, <<>>)>>)
\* the file of test_config_load_from_yaml
TestYaml ==
    Yaml(TRUE, TRUE, TRUE,
         <<Section("conversion", TRUE,
                   <<Item("max_file_size", 209715200), Item("output_quality", "medium")>>),
           Section("processing", TRUE,
                   <<Item("max_workers", 8), Item("timeout", 600)>>),
           Section("logging", TRUE, <<Item("level", "DEBUG")>>)>>)
\* a file whose section bears the name of an attribute
AttrYaml ==
    Yaml(TRUE, TRUE, TRUE,
         <<Section("timeout", TRUE,
                   <<Item("max_workers", 8), Item("timeout", 600),
                     Item("unknown_key", 1)>>)>>)

YamlFiles == {NoYaml, BrokenYaml, ListYaml, FlatYaml, TestYaml, AttrYaml}

\* lines 85-87
ApplyItems(c, items) ==
    LET acc[i \in 0..Len(items)] ==
            IF i = 0 THEN c
            ELSE IF hasattr(acc[i - 1], items[i].key)
                 THEN [acc[i - 1] EXCEPT ![items[i].key] = items[i].value]
                 ELSE acc[i - 1]
    IN  acc[Len(items)]

\* lines 78-87
_update_from_dict(c, config_data) ==
    IF ~config_data.isdict THEN c
    ELSE LET acc[i \in 0..Len(config_data.sections)] ==
                 IF i = 0 THEN c
                 ELSE IF hasattr(acc[i - 1], config_data.sections[i].name)
                         /\ config_data.sections[i].isdict
                      THEN ApplyItems(acc[i - 1], config_data.sections[i].items)
                      ELSE acc[i - 1]
         IN  acc[Len(config_data.sections)]

\* lines 45-54
_load_from_file(c, config_file) ==
    IF config_file.exists /\ config_file.loads
    THEN _update_from_dict(c, config_file)
    ELSE c

\* int(value) on a string given as its characters: an optional sign and
\* decimal digits, ValueError for anything else
DigitValue(ch) ==
    CASE ch = "0" -> 0 [] ch = "1" -> 1 [] ch = "2" -> 2 [] ch = "3" -> 3
      [] ch = "4" -> 4 [] ch = "5" -> 5 [] ch = "6" -> 6 [] ch = "7" -> 7
      [] ch = "8" -> 8 [] ch = "9" -> 9

Unsigned(value) ==
    IF value # <<>> /\ value[1] \in {"+", "-"} THEN Tail(value) ELSE value

IsIntLiteral(value) ==
    /\ Unsigned(value) # <<>>
    /\ \A i \in DOMAIN Unsigned(value) :
          Unsigned(value)[i] \in {"0", "1", "2", "3", "4", "5", "6", "7", "8", "9"}

int(value) ==
    LET d == Unsigned(value)
        n[i \in 0..Len(d)] == IF i = 0 THEN 0 ELSE 10 * n[i - 1] + DigitValue(d[i])
    IN  IF value[1] = "-" THEN 0 - n[Len(d)] ELSE n[Len(d)]

\* lines 58-64
EnvNames ==
    <<"CONVERTER_MAX_WORKERS", "CONVERTER_LOG_LEVEL", "CONVERTER_OUTPUT_DIR",
      "CONVERTER_MAX_FILE_SIZE", "CONVERTER_TIMEOUT">>

env_mappings(env_var) ==
    CASE env_var = "CONVERTER_MAX_WORKERS"   -> "max_workers"
      [] env_var = "CONVERTER_LOG_LEVEL"     -> "log_level"
      [] env_var = "CONVERTER_OUTPUT_DIR"    -> "default_output_dir"
      [] env_var = "CONVERTER_MAX_FILE_SIZE" -> "max_file_size"
      [] env_var = "CONVERTER_TIMEOUT"       -> "timeout"

\* os.getenv: a variable is set to a value or not set (None)
EnvSet(v) == [set |-> TRUE, value |-> v]
EnvUnset(v) == [set |-> FALSE, value |-> v]

\* lines 67-76: one round of the loop
ApplyEnv(c, attr_name, e) ==
    IF ~e.set THEN c
    ELSE IF attr_name \in {"max_workers", "max_file_size", "timeout"}
    THEN IF IsIntLiteral(e.value)
         THEN [c EXCEPT ![attr_name] = int(e.value)]
         ELSE c
    ELSE [c EXCEPT ![attr_name] = e.value]

\* lines 56-76
_load_from_env(c, env) ==
    LET acc[i \in 0..Len(EnvNames)] ==
            IF i = 0 THEN c
            ELSE ApplyEnv(acc[i - 1], env_mappings(EnvNames[i]), env[EnvNames[i]])
    IN  acc[Len(EnvNames)]

\* a constructor that reads the environment before config.yaml
Config__init__env_first(config_file, env) ==
    _load_from_file(_load_from_env(DefaultConfig, env), config_file)

\* lines 14-43
Config__init__(config_file, env) ==
    _load_from_env(_load_from_file(DefaultConfig, config_file), env)

\* pathlib's "/": an absolute right operand replaces the left one
Join(a, b) == IF b.abs THEN b ELSE Dir(a.abs, a.parts \o b.parts)

\* lines 97-108: the directory that is made and the path that is returned
get_output_path(c, input_path) ==
    LET out_dir == IF c.create_subdirs
                   THEN Join(c.default_output_dir, input_path.dir)
                   ELSE c.default_output_dir
    IN  [made |-> out_dir, path |-> Path(out_dir, input_path.stem, ".pdf")]

\* lines 110-126
validate(c) ==
    (IF c.max_workers < 1 THEN <<"max_workers debe ser mayor a 0">> ELSE <<>>)
    \o (IF c.max_file_size < 1024 THEN <<"max_file_size debe ser mayor a 1KB">> ELSE <<>>)
    \o (IF c.timeout < 30 THEN <<"timeout debe ser mayor a 30 segundos">> ELSE <<>>)
    \o (IF c.supported_extensions = {}
        THEN <<"Debe haber al menos una extension soportada">> ELSE <<>>)

\* the environments: every variable is unset or has one of these values
WorkersEnv ==
    {EnvUnset(<<>>), EnvSet(<<"6">>), EnvSet(<<"0">>), EnvSet(<<"a", "b", "c">>)}
LogLevelEnv == {EnvUnset(""), EnvSet("WARNING")}
OutputDirEnv == {EnvUnset(Dir(FALSE, <<>>)), EnvSet(Dir(TRUE, <<"custom", "output">>))}
FileSizeEnv ==
    {EnvUnset(<<>>), EnvSet(<<"2", "0", "9", "7", "1", "5", "2", "0", "0">>),
     EnvSet(<<"1", "0", "2", "4">>), EnvSet(<<"4", ".", "5">>)}
TimeoutEnv ==
    {EnvUnset(<<>>), EnvSet(<<"6", "0", "0">>), EnvSet(<<"3", "0">>), EnvSet(<<>>),
     EnvSet(<<"-", "1">>)}

Env(w, l, o, f, t) ==
    [CONVERTER_MAX_WORKERS |-> w, CONVERTER_LOG_LEVEL |-> l, CONVERTER_OUTPUT_DIR |-> o,
     CONVERTER_MAX_FILE_SIZE |-> f, CONVERTER_TIMEOUT |-> t]

SetCount(env) == Cardinality({i \in DOMAIN EnvNames : env[EnvNames[i]].set})

\* the environment of test_config_load_from_env
TestEnv ==
    Env(EnvSet(<<"6">>), EnvSet("WARNING"), EnvSet(Dir(TRUE, <<"custom", "output">>)),
        EnvSet(<<"2", "0", "9", "7", "1", "5", "2", "0", "0">>), EnvSet(<<"6", "0", "0">>))

Environments ==
    {env \in {Env(w, l, o, f, t) : w \in WorkersEnv, l \in LogLevelEnv, o \in OutputDirEnv,
                                   f \in FileSizeEnv, t \in TimeoutEnv} :
        SetCount(env) <= MaxEnvSet \/ env = TestEnv}

\* the assignments made to attributes from outside (test_config.py)
Assignments ==
    <<Item("max_workers", 0), Item("max_file_size", 512), Item("max_file_size", 1024),
      Item("timeout", 10), Item("timeout", 31), Item("supported_extensions", {}),
      Item("default_output_dir", Dir(TRUE, <<"tmp", "t">>)), Item("create_subdirs", FALSE)>>

\* the input_path arguments of get_output_path
InputDocs ==
    {Path(Dir(TRUE, <<"path", "to", "subdir">>), "document", ".docx"),
     Path(Dir(TRUE, <<"path", "to">>), "document", ".docx"),
     Path(Dir(FALSE, <<"docs">>), "report", ".docx"),
     Path(Dir(FALSE, <<>>), "report", ".doc"),
     Path(Dir(FALSE, <<"..", "other">>), "report", ".docx")}

NoOp ==
    [op |-> "Config", errors |-> <<>>, raised |-> FALSE,
     input |-> Path(Dir(FALSE, <<>>), "", ""), output |-> Path(Dir(FALSE, <<>>), "", ""),
     made |-> Dir(FALSE, <<>>)]

\* config.max_workers = 0 and the like
SetAttribute(name, value) ==
    /\ assigned < MaxAssignments
    /\ cfg[name] # value
    /\ cfg' = [cfg EXCEPT ![name] = value]
    /\ cfgOp' = [NoOp EXCEPT !.op = "setattr"]
    /\ assigned' = assigned + 1
    /\ UNCHANGED <<cfgSrc, procVars, convVars, valVars, logVars, cliVars>>

\* settings.py lines 110-126
Validate ==
    /\ cfgOp' = [NoOp EXCEPT !.op = "validate", !.errors = validate(cfg)]
    /\ UNCHANGED <<cfg, cfgSrc, assigned, procVars, convVars, valVars, logVars, cliVars>>

\* settings.py lines 97-108; mkdir raises when the directory cannot be made
GetOutputPath(input_path, mkdirOk) ==
    /\ cfgOp' = IF mkdirOk
                THEN [NoOp EXCEPT !.op = "get_output_path", !.input = input_path,
                                  !.made = get_output_path(cfg, input_path).made,
                                  !.output = get_output_path(cfg, input_path).path]
                ELSE [NoOp EXCEPT !.op = "get_output_path", !.input = input_path,
                                  !.raised = TRUE]
    /\ UNCHANGED <<cfg, cfgSrc, assigned, procVars, convVars, valVars, logVars, cliVars>>

\* settings.py lines 129-140: a new Config is made, validated and returned
LoadConfig ==
    /\ cfg' = Config__init__(cfgSrc.file, cfgSrc.env)
    /\ cfgOp' = [NoOp EXCEPT !.op = "load_config",
                             !.errors = validate(Config__init__(cfgSrc.file, cfgSrc.env))]
    /\ UNCHANGED <<cfgSrc, assigned, procVars, convVars, valVars, logVars, cliVars>>

\* a process without config.yaml and with none of the variables set
InitCfg ==
    /\ cfgSrc = [file |-> NoYaml,
                 env |-> Env(EnvUnset(<<>>), EnvUnset(""), EnvUnset(Dir(FALSE, <<>>)),
                             EnvUnset(<<>>), EnvUnset(<<>>))]
    /\ cfg = DefaultConfig
    /\ cfgOp = NoOp
    /\ assigned = 0

(***************************************************************************)
(* utils.logger: the named loggers of the logging module, as setup_logger  *)
(* and get_logger configure them.  None of the names has a dot, so every   *)
(* logger's parent is the root logger, which has no handler.               *)
(***************************************************************************)
LoggerNames == {"doc_converter", "test_integration", "DocumentConverter"}
LogFiles == {"logs/converter.log", "out/test.log"}
Console == "console"
LogLevels == {"INFO", "ERROR"}

\* logging.INFO, logging.ERROR, ...
LevelNo(level) ==
    CASE level = "DEBUG" -> 10 [] level = "INFO" -> 20
      [] level = "WARNING" -> 30 [] level = "ERROR" -> 40

\* a logger without handlers, as logging.getLogger creates it
NoHandlers ==
    [handlers |-> FALSE, level |-> "WARNING", log_file |-> "", console |-> FALSE,
     got |-> FALSE]

\* logger.py lines 66-95: the level is set, the handlers are cleared, a
\* RotatingFileHandler of level DEBUG on log_file is added and, with
\* console_output, a StreamHandler of the logger's level.  got: get_logger
\* has returned this logger since the program last called setup_logger.
Handlers(level, log_file, console_output, got) ==
    [handlers |-> TRUE, level |-> level, log_file |-> log_file,
     console |-> console_output, got |-> got]

\* lines 35-41: the defaults of setup_logger, but for the name
DefaultHandlers(got) == Handlers("INFO", "logs/converter.log", TRUE, got)

\* what a record of the given level, logged on logger l, is written to
Sinks(l, level) ==
    IF ~l.handlers \/ LevelNo(level) < LevelNo(l.level) THEN {}
    ELSE {l.log_file} \cup (IF l.console THEN {Console} ELSE {})

NoRecord == [name |-> "", level |-> "INFO"]

\* logger.py lines 35-97, called by the program
setup_logger(name, level, log_file, console_output) ==
    /\ setups < MaxSetups
    /\ setups' = setups + 1
    /\ loggers' = [n \in LoggerNames |->
                     IF n = name THEN Handlers(level, log_file, console_output, FALSE)
                     ELSE [loggers[n] EXCEPT !.got = FALSE]]
    /\ UNCHANGED <<logged, lastLog, logCalls, procVars, convVars, valVars, cfgVars, cliVars>>

\* logger.py lines 100-117, also as LoggerMixin.__init__ calls it (line 123):
\* a logger without handlers is set up with the defaults of setup_logger
get_logger(name) ==
    /\ ~loggers[name].got
    /\ loggers' = [loggers EXCEPT ![name] =
                     IF loggers[name].handlers
                     THEN [loggers[name] EXCEPT !.got = TRUE]
                     ELSE DefaultHandlers(TRUE)]
    /\ UNCHANGED <<logged, lastLog, logCalls, setups, procVars, convVars, valVars, cfgVars, cliVars>>

\* logger.info(...), logger.error(...) on a logger that get_logger returned
\* (lines 125-135 for a LoggerMixin)
Log(name, level) ==
    /\ logCalls < MaxLogCalls
    /\ loggers[name].got
    /\ logCalls' = logCalls + 1
    /\ lastLog' = [name |-> name, level |-> level]
    /\ logged' = [f \in LogFiles \cup {Console} |->
                    IF f \in Sinks(loggers[name], level)
                    THEN logged[f] \cup {[name |-> name, level |-> level]}
                    ELSE logged[f]]
    /\ UNCHANGED <<loggers, setups, procVars, convVars, valVars, cfgVars, cliVars>>

\* no logger has been asked for yet
InitLog ==
    /\ loggers = [n \in LoggerNames |-> NoHandlers]
    /\ logged = [f \in LogFiles \cup {Console} |-> {}]
    /\ lastLog = NoRecord
    /\ logCalls = 0
    /\ setups = 0

(***************************************************************************)
(* cli.batch: the files are discovered, validate_batch is called on them,  *)
(* and a ParallelProcessor is created for the valid ones.                  *)
(***************************************************************************)
\* at: "start" (not run yet), "found" (lines 116-143 are done), "processing"
\* (the processor of line 162 exists), "exit0", "exit1"
NoCommand == [at |-> "start", files |-> <<>>, workers |-> 0, processor |-> FALSE]

\* the lists of files lines 116-136 come to: short ones, and one longer than
\* max_files_per_batch
DiscoveredLists ==
    SeqsUpTo(Paths, MaxFiles) \cup {[i \in 1..(max_files_per_batch + 1) |-> Numbered(i)]}

\* cli.py lines 112-143: nothing was found, or validation comes next
BatchDiscover(all_files, workers) ==
    /\ cmd.at = "start"
    /\ cmd' = [at |-> IF all_files = <<>> THEN "exit1" ELSE "found",
               files |-> all_files, workers |-> workers, processor |-> FALSE]
    /\ UNCHANGED <<procVars, convVars, valVars, cfgVars, logVars>>

\* line 146
BatchValidate ==
    /\ cmd.at = "found" /\ vcall.op = "none"
    /\ ValidateBatchBegin(cmd.files)

\* lines 148-162: validate_batch has returned
BatchValidated ==
    /\ cmd.at = "found" /\ vcall.op = "validate_batch"
    /\ IF vcall.result.valid = <<>>
       THEN /\ cmd' = [cmd EXCEPT !.at = "exit1"]
            /\ UNCHANGED max_workers
       ELSE /\ cmd' = [cmd EXCEPT !.at = "processing", !.processor = TRUE]
            /\ max_workers' = IF cmd.workers # 0 THEN cmd.workers ELSE cfg.max_workers
    /\ UNCHANGED <<stats, pc, input_files, output_dir, valid_files, task, fut, outp,
                   submits, results, returned, stats0, now, handled, fresh, dirs,
                   convVars, valVars, cfgVars, logVars>>

\* a batch command that hands process_files every file it found
BatchInputAllFiles == cmd.files

\* line 157: valid_files = validation_result['valid']
BatchInput == vcall.result.valid

\* line 166, as far as process_files goes before it returns or enters the pool
BatchProcess(dir) ==
    /\ cmd.at = "processing" /\ pc = "idle" /\ handled = 0
    /\ \/ ProcessFilesRaises(BatchInput, dir)
       \/ ProcessFilesBegin(BatchInput, dir)

\* lines 169-188: the results are printed and the command ends
BatchFinish ==
    /\ cmd.at = "processing" /\ pc = "returned"
    /\ cmd' = [cmd EXCEPT !.at = "exit0"]
    /\ UNCHANGED <<procVars, convVars, valVars, cfgVars, logVars>>

InitCli == cmd = NoCommand

(***************************************************************************)
(* A DocumentConverter used directly (cli convert, the tests): its calls.  *)
(***************************************************************************)
ConvPaths == {Path("d1", "a", e) : e \in {".doc", ".docx", ".txt"}}
ConvAttrs ==
    {Attrs(ex, TRUE, 500, DocxMime, c) : ex \in BOOLEAN, c \in Contents \ {"fatal"}}

\* the output_path arguments of the calls
OutputPaths == {Path("out", "a", ".pdf"), Path("out", "output", ".pdf")}

NoConv ==
    [out |-> Return(FALSE), ds |-> 0, df |-> 0, called |-> FALSE,
     p |-> Path("", "", ""), a |-> Attrs(FALSE, FALSE, 0, "", "ok"), dirOk |-> FALSE,
     output_path |-> Path("", "", ""), existed |-> FALSE]

\* document_converter.py lines 33-80
ConvertDocument(p, a, dirOk, output_path, partial) ==
    /\ convCalls < MaxConvCalls
    /\ LET r == convert_document(p, a, dirOk) IN
       /\ conv' = [successful_conversions |-> conv.successful_conversions + r.ds,
                   failed_conversions |-> conv.failed_conversions + r.df]
       /\ lastConv' = [out |-> r.out, ds |-> r.ds, df |-> r.df, called |-> TRUE,
                       p |-> p, a |-> a, dirOk |-> dirOk,
                       output_path |-> output_path, existed |-> output_path \in pdfs]
    /\ pdfs' = IF OutputWritten(p, a, dirOk, partial) THEN pdfs \cup {output_path} ELSE pdfs
    /\ convCalls' = convCalls + 1
    /\ convSince' = convSince + 1
    /\ UNCHANGED <<lastSingle, procVars, libVars>>

\* parallel_processor.py lines 169-190, on a converter of its own
ConvertSingleFile(p, a, dirOk, partial) ==
    /\ convCalls < MaxConvCalls
    /\ lastSingle' = <<_convert_single_file(p, a, dirOk, _get_output_path(p, "out"))>>
    /\ lastConv' = [NoConv EXCEPT !.p = p, !.a = a, !.dirOk = dirOk]
    /\ pdfs' = IF OutputWritten(p, a, dirOk, partial)
               THEN pdfs \cup {_get_output_path(p, "out")} ELSE pdfs
    /\ convCalls' = convCalls + 1
    /\ UNCHANGED <<conv, convSince, procVars, libVars>>

\* document_converter.py lines 356-363
converter_reset_stats ==
    /\ convCalls > 0 /\ convCalls < MaxConvCalls
    /\ conv # [successful_conversions |-> 0, failed_conversions |-> 0]
    /\ conv' = [successful_conversions |-> 0, failed_conversions |-> 0]
    /\ convSince' = 0
    /\ UNCHANGED <<convCalls, lastConv, lastSingle, pdfs, procVars, libVars>>

InitConv ==
    /\ conv = [successful_conversions |-> 0, failed_conversions |-> 0]
    /\ convCalls = 0
    /\ convSince = 0
    /\ lastConv = NoConv
    /\ lastSingle = <<>>
    /\ pdfs = {}

\* lines 21-35: a newly constructed processor
InitProc ==
    /\ max_workers \in 1..MaxWorkersArg
    /\ stats = InitStats
    /\ pc = "idle"
    /\ input_files = <<>> /\ output_dir = "out" /\ valid_files = <<>>
    /\ task = <<>> /\ fut = <<>> /\ outp = <<>> /\ submits = <<>>
    /\ results = EmptyResults
    /\ returned = NoReturn
    /\ stats0 = Counters(InitStats)
    /\ now = 0
    /\ handled = 0
    /\ fresh = TRUE
    /\ dirs = {}

Init == InitProc /\ InitConv /\ InitVal /\ InitCfg /\ InitLog /\ InitCli

\* the input_files lists handed to process_files
InputLists == SeqsUpTo(Paths, MaxFiles)

Next ==
    \/ /\ pc = "idle"
       /\ \E files \in InputLists, dir \in OutputDirs : ProcessFilesNoValid(files, dir)
    \/ /\ pc = "idle"
       /\ \E files \in InputLists, dir \in OutputDirs : ProcessFilesRaises(files, dir)
    \/ /\ pc = "idle"
       /\ \E files \in InputLists, dir \in OutputDirs : ProcessFilesBegin(files, dir)
    \/ Submit
    \/ \E i \in Tasks : WorkerStart(i)
    \/ \E i \in Tasks : WorkerFinish(i)
    \/ \E i \in Tasks : Collect(i)
    \/ ProcessFilesReturn
    \/ Release
    \/ \E n \in 0..MaxWorkersArg : set_max_workers(n)
    \/ reset_stats

Spec == Init /\ [][Next]_vars

\* the same processor with its history noted in fresh: whether a
\* process_files call has returned since the constructor or reset_stats ran
NextReset ==
    \/ /\ pc = "idle"
       /\ \E files \in InputLists, dir \in OutputDirs : ProcessFilesNoValid(files, dir)
    \/ /\ pc = "idle"
       /\ \E files \in InputLists, dir \in OutputDirs : ProcessFilesRaises(files, dir)
    \/ /\ pc = "idle"
       /\ \E files \in InputLists, dir \in OutputDirs : ProcessFilesBegin(files, dir)
    \/ Submit
    \/ \E i \in Tasks : WorkerStart(i)
    \/ \E i \in Tasks : WorkerFinish(i)
    \/ \E i \in Tasks : Collect(i)
    \/ ProcessFilesReturn
    \/ ReleaseNoted
    \/ \E n \in 0..MaxWorkersArg : set_max_workers(n)
    \/ reset_stats_noted

SpecReset == Init /\ [][NextReset]_vars

\* process_files runs on: its own thread goes through the submission loop,
\* the as_completed loop and the return; the pool hands each queued call to
\* a free process, and every conversion task comes to an end
Fairness ==
    /\ WF_vars(Submit)
    /\ \A i \in 1..MaxFiles : WF_vars(WorkerStart(i))
    /\ \A i \in 1..MaxFiles : WF_vars(WorkerFinish(i))
    /\ \A i \in 1..MaxFiles : WF_vars(Collect(i))
    /\ WF_vars(ProcessFilesReturn)

SpecFair == Init /\ [][Next]_vars /\ Fairness

\* a processor that is never used, and a converter that is
InitIdleProc ==
    /\ max_workers = 1
    /\ stats = InitStats
    /\ pc = "idle"
    /\ input_files = <<>> /\ output_dir = "out" /\ valid_files = <<>>
    /\ task = <<>> /\ fut = <<>> /\ outp = <<>> /\ submits = <<>>
    /\ results = EmptyResults
    /\ returned = NoReturn
    /\ stats0 = Counters(InitStats)
    /\ now = 0
    /\ handled = 0
    /\ fresh = TRUE
    /\ dirs = {}

NextConv ==
    \/ \E p \in ConvPaths, a \in ConvAttrs, dirOk \in BOOLEAN,
          output_path \in OutputPaths, partial \in BOOLEAN :
            ConvertDocument(p, a, dirOk, output_path, partial)
    \/ \E p \in ConvPaths, a \in ConvAttrs, dirOk \in BOOLEAN, partial \in BOOLEAN :
            ConvertSingleFile(p, a, dirOk, partial)
    \/ converter_reset_stats

InitConvSpec == InitIdleProc /\ InitConv /\ InitVal /\ InitCfg /\ InitLog /\ InitCli

SpecConv == InitConvSpec /\ [][NextConv]_vars

\* a FileValidator and a BatchValidator that are used
NextVal ==
    \/ \E p \in ValPaths, a \in ValAttrs : ValidateFile(p, a)
    \/ \E file_paths \in BatchLists : ValidateBatchBegin(file_paths)
    \/ \E d \in Directories : ValidateDirectoryBatch(d)
    \/ ValidateBatchStep
    \/ ValidateBatchReturn
    \/ \E validation_result \in HandMadeResults \cup {vcall.result} :
          GetBatchStatistics(validation_result)

InitValSpec == InitIdleProc /\ InitConv /\ InitVal /\ InitCfg /\ InitLog /\ InitCli

SpecVal == InitValSpec /\ [][NextVal]_vars

\* a Config constructed in some environment, and used
NextCfg ==
    \/ \E i \in DOMAIN Assignments : SetAttribute(Assignments[i].key, Assignments[i].value)
    \/ Validate
    \/ \E input_path \in InputDocs, mkdirOk \in BOOLEAN : GetOutputPath(input_path, mkdirOk)
    \/ LoadConfig

\* settings.py lines 14-43
InitCfgSpec ==
    /\ InitIdleProc /\ InitConv /\ InitVal /\ InitLog /\ InitCli
    /\ cfgSrc \in [file : YamlFiles, env : Environments]
    /\ cfg = Config__init__(cfgSrc.file, cfgSrc.env)
    /\ cfgOp = NoOp
    /\ assigned = 0

SpecCfg == InitCfgSpec /\ [][NextCfg]_vars

\* the batch command, run once.  process_files validates again the files
\* validate_batch found valid, so its branch for no valid file is not taken.
NextBatch ==
    \/ /\ cmd.at = "start"
       /\ \E all_files \in DiscoveredLists, workers \in -1..MaxWorkersArg :
             BatchDiscover(all_files, workers)
    \/ BatchValidate
    \/ cmd.at = "found" /\ ValidateBatchStep
    \/ cmd.at = "found" /\ ValidateBatchReturn
    \/ BatchValidated
    \/ \E dir \in OutputDirs : BatchProcess(dir)
    \/ Submit
    \/ \E i \in Tasks : WorkerStart(i)
    \/ \E i \in Tasks : WorkerFinish(i)
    \/ \E i \in Tasks : Collect(i)
    \/ ProcessFilesReturn
    \/ BatchFinish

InitBatchSpec == InitIdleProc /\ InitConv /\ InitVal /\ InitCfg /\ InitLog /\ InitCli

SpecBatch == InitBatchSpec /\ [][NextBatch]_vars

\* a program that sets up the default logger (cli.py lines 38-43, the tests)
\* and uses loggers of several names
NextLog ==
    \/ \E level \in LogLevels, log_file \in LogFiles, console_output \in BOOLEAN :
            setup_logger("doc_converter", level, log_file, console_output)
    \/ \E name \in LoggerNames : get_logger(name)
    \/ \E name \in LoggerNames, level \in LogLevels : Log(name, level)

InitLogSpec == InitIdleProc /\ InitConv /\ InitVal /\ InitCfg /\ InitLog /\ InitCli

SpecLog == InitLogSpec /\ [][NextLog]_vars

(***************************************************************************)
(* Properties.                                                             *)
(***************************************************************************)
Range(q) == {q[i] : i \in DOMAIN q}
Count(q, x) == Cardinality({i \in DOMAIN q : q[i] = x})
Inputs(q) == {q[i].input : i \in DOMAIN q}
InputCount(q, p) == Cardinality({i \in DOMAIN q : q[i].input = p})

\* process_files has returned through line 74
NormalReturn == pc = "returned" /\ returned.kind = "normal"

\* what converting the file at p comes to, whenever and wherever it is done
Converts(p) == Disk(p).content = "ok"
Undelivered(p) == Disk(p).content = "fatal"

\* C1 as stated: on the normal path every validated file appears exactly once
\* in successful or failed, and never in both.
C1_ExactlyOnce ==
    NormalReturn =>
        \A p \in Range(valid_files) :
            InputCount(returned.successful, p) + InputCount(returned.failed, p) = 1

\* C1 amended: on the normal path every entry of the validated list is recorded
\* exactly once: a validated path appears in successful and failed together as
\* many times as the input list names it, so a path named once appears exactly
\* once and never in both, and nothing else appears.
C1_EveryEntryOnce ==
    NormalReturn =>
        /\ \A p \in Paths :
              InputCount(returned.successful, p) + InputCount(returned.failed, p)
                  = Count(valid_files, p)
        /\ \A p \in Range(valid_files) :
              Count(valid_files, p) = 1 =>
                  ~(p \in Inputs(returned.successful) /\ p \in Inputs(returned.failed))

\* three distinct validated files, one worker, failures and a success recorded
C1_Witness ==
    /\ NormalReturn
    /\ max_workers = 1
    /\ Cardinality(Range(valid_files)) = 3
    /\ returned.successful # <<>>
    /\ Len(returned.failed) = 2

\* C2 as stated: the success_rate of a normal result is 100 * successful
\* conversions / files processed in that call (100 when every file converts).
C2_SuccessRate ==
    NormalReturn =>
        RatEq(returned.stats.success_rate, 100 * Len(returned.successful), Len(valid_files))

\* C3 as stated: the counters of a normal result agree with its lists, and
\* processed_files is their sum.
C3_StatsAgree ==
    NormalReturn =>
        /\ returned.stats.successful_conversions = Len(returned.successful)
        /\ returned.stats.failed_conversions = Len(returned.failed)
        /\ returned.stats.processed_files
             = returned.stats.successful_conversions + returned.stats.failed_conversions

\* C4: during a call no more than max_workers conversion tasks run at once.
C4_PoolBound == pc \in {"submit", "collect"} => Cardinality(Running) <= max_workers

\* both workers busy while a third file waits in the queue
C4_Witness ==
    /\ pc = "collect"
    /\ max_workers = 2
    /\ Cardinality(Running) = 2
    /\ \E i \in Tasks : task[i] = "queued"

\* C5: every validated entry is submitted exactly once, also when its
\* conversion fails or raises, and what is recorded for it is the outcome of
\* that one run.
C5_NoRetries ==
    \A i \in Tasks :
        /\ submits[i] <= 1
        /\ task[i] # "new" => submits[i] = 1
        /\ task[i] = "recorded" =>
              IF fut[i].kind = "result" /\ fut[i].val[1]
              THEN [input |-> valid_files[i], output |-> fut[i].val[2]] \in Range(results.successful)
              ELSE IF fut[i].kind = "result"
              THEN [input |-> valid_files[i], error |-> fut[i].val[3]] \in Range(results.failed)
              ELSE [input |-> valid_files[i], error |-> fut[i].exc] \in Range(results.failed)

\* a call that returned with a failed conversion and a raised future, each
\* submitted once
C5_Witness ==
    /\ NormalReturn
    /\ \E i \in Tasks : fut[i].kind = "result" /\ ~fut[i].val[1] /\ submits[i] = 1
    /\ \E i \in Tasks : fut[i].kind = "exception" /\ submits[i] = 1

C7_DistinctOutputs ==
    \A i, j \in DOMAIN outp :
        valid_files[i] # valid_files[j] => outp[i] # outp[j]

\* C8: the result of the normal path is fixed by the validated files and what
\* converting each comes to, not by the order in which the workers finish: the
\* sets of successful entries, failed entries and error messages and the
\* counters are those computed from the files alone.
OkIndex == {i \in DOMAIN valid_files : Converts(valid_files[i])}
BadIndex == DOMAIN valid_files \ OkIndex

C8_OrderIndependent ==
    NormalReturn =>
        /\ Range(returned.successful) =
              {[input |-> valid_files[i],
                output |-> Path(output_dir, valid_files[i].stem, ".pdf")] : i \in OkIndex}
        /\ Range(returned.failed) =
              {[input |-> valid_files[i],
                error |-> IF Undelivered(valid_files[i]) THEN "BrokenProcessPool"
                          ELSE "Error de conversion"] : i \in BadIndex}
        /\ Range(returned.errors) =
              {[file |-> valid_files[i],
                text |-> IF Undelivered(valid_files[i]) THEN "Error inesperado"
                         ELSE "Error de conversion"] : i \in BadIndex}
        /\ Len(returned.successful) = Cardinality(OkIndex)
        /\ Len(returned.failed) = Cardinality(BadIndex)
        /\ Len(returned.errors) = Cardinality(BadIndex)
        /\ returned.stats.successful_conversions
             = stats0.successful_conversions + Cardinality(OkIndex)
        /\ returned.stats.failed_conversions
             = stats0.failed_conversions + Cardinality(BadIndex)
        /\ returned.stats.total_files = Len(input_files)

\* results collected in an order other than the order of submission
C8_Witness ==
    /\ NormalReturn
    /\ Len(valid_files) = 3
    /\ Len(returned.failed) = 2
    /\ returned.failed[1].input = valid_files[3]
    /\ returned.failed[2].input = valid_files[1]
    /\ returned.successful[1].input = valid_files[2]

\* C9 as stated: every path of input_files is in successful or failed of the
\* result, those rejected by pre-validation included.
C9_EveryInputTracked ==
    NormalReturn =>
        \A p \in Range(input_files) :
            p \in Inputs(returned.successful) \cup Inputs(returned.failed)

\* C9 amended: on the normal path the paths in successful and failed are
\* exactly the input paths that passed pre-validation; a rejected input is in
\* neither list and is only counted in total_files.
C9_ValidatedTracked ==
    NormalReturn =>
        /\ Inputs(returned.successful) \cup Inputs(returned.failed)
             = {p \in Range(input_files) : validate_file(p, Disk(p))[1]}
        /\ returned.stats.total_files = Len(input_files)

\* a normal result for a list that held a rejected file
C9_Witness ==
    /\ NormalReturn
    /\ \E p \in Range(input_files) : ~validate_file(p, Disk(p))[1]
    /\ returned.successful # <<>>

\* C10: convert_document returns True or raises ConversionError, nothing
\* else, so _convert_single_file never reports "Error en conversion".
C10_TwoOutcomes ==
    /\ lastConv.called =>
          \/ lastConv.out.kind = "return" /\ lastConv.out.val = TRUE
          \/ lastConv.out.kind = "raise" /\ lastConv.out.exc = "ConversionError"
    /\ lastSingle # <<>> =>
          /\ lastSingle[1][3] # "Error en conversion"
          /\ lastSingle[1][1] = (lastSingle[1][3] = "")

\* the input loads and extracts but the PDF cannot be generated
C10_Witness ==
    /\ lastConv.called
    /\ lastConv.a.exists /\ lastConv.dirOk /\ lastConv.a.content = "unrenderable"
    /\ lastConv.p.ext = ".docx"
    /\ lastConv.out.kind = "raise"

\* C11 as stated: when convert_document fails for an input that is not a valid
\* Word document, it raises and no file exists at output_path afterwards.
NotWord(p, a) == Lower(p.ext) \notin {".doc", ".docx"} \/ a.content = "unloadable"

C11_NoOutputFile ==
    lastConv.called /\ NotWord(lastConv.p, lastConv.a) =>
        /\ lastConv.out.kind = "raise"
        /\ lastConv.output_path \notin pdfs

\* C11 amended: for an input that is not a valid Word document
\* convert_document raises ConversionError and writes nothing: a file exists
\* at output_path afterwards exactly when one was there before the call.
C11_NoOutputWritten ==
    lastConv.called /\ NotWord(lastConv.p, lastConv.a) =>
        /\ lastConv.out.kind = "raise" /\ lastConv.out.exc = "ConversionError"
        /\ lastConv.output_path \in pdfs <=> lastConv.existed

\* a text file handed to convert_document with a new output_path, after
\* another document was converted
C11_Witness ==
    /\ lastConv.called
    /\ lastConv.p.ext = ".txt" /\ lastConv.a.exists /\ lastConv.dirOk
    /\ lastConv.out.kind = "raise"
    /\ ~lastConv.existed
    /\ lastConv.output_path \notin pdfs
    /\ pdfs # {}

\* C12 as stated: validate_file never raises and returns (True, None) exactly
\* when the file exists, is readable, has a supported extension, is no larger
\* than max_file_size and passes the integrity check; otherwise it returns
\* (False, message) with the message of the first failing check in the order
\* existence, readability, extension, size, integrity.
FirstFailing(p, a) ==
    IF ~a.exists THEN "Archivo no encontrado"
    ELSE IF ~a.readable THEN "Sin permisos de lectura"
    ELSE IF Lower(p.ext) \notin {".doc", ".docx"} THEN "Extension no soportada"
    ELSE IF a.size > max_file_size THEN "Archivo demasiado grande"
    ELSE IF ~_is_valid_file(p, a) THEN "Archivo corrupto o no valido"
    ELSE ""

AllChecksPass(p, a) ==
    /\ a.exists /\ a.readable
    /\ Lower(p.ext) \in {".doc", ".docx"}
    /\ a.size <= max_file_size
    /\ _is_valid_file(p, a)

C12_FirstFailingCheck ==
    vcall.op = "validate_file" =>
        /\ vcall.res[1] <=> AllChecksPass(vcall.p, vcall.a)
        /\ vcall.res[2] = FirstFailing(vcall.p, vcall.a)

\* C12 amended: validate_file never raises.  When a check itself raises (the
\* path cannot be examined) it returns (False, 'Error de validacion: ...');
\* otherwise it returns (True, None) exactly when all five checks pass, and
\* else (False, message) with the message of the first failing check in the
\* order existence, readability, extension, size, integrity.
C12_FirstFailingOrError ==
    vcall.op = "validate_file" =>
        IF StatRaises(vcall.p)
        THEN vcall.res = <<FALSE, "Error de validacion">>
        ELSE /\ vcall.res[1] <=> AllChecksPass(vcall.p, vcall.a)
             /\ vcall.res[2] = FirstFailing(vcall.p, vcall.a)

\* a readable file that is both of an unsupported extension and too large:
\* the extension is what is reported
C12_Witness ==
    /\ vcall.op = "validate_file"
    /\ ~StatRaises(vcall.p)
    /\ vcall.a.exists /\ vcall.a.readable
    /\ vcall.p.ext = ".txt" /\ vcall.a.size > max_file_size
    /\ vcall.res = <<FALSE, "Extension no soportada">>

\* C13: for a batch of at most 100 paths validate_batch partitions its input:
\* valid and invalid are the input paths that pass and that fail validation,
\* each in input order, disjoint, together as long as the input, with one
\* message in errors for each entry of invalid; a path whose validation
\* raises is in invalid and the paths after it are still validated.
Valid(p) == p # Unvalidatable /\ validate_file(p, DiskAt(p))[1]
Invalid(p) == ~Valid(p)

C13_Partition ==
    vcall.op = "validate_batch" /\ Len(vcall.files) <= max_files_per_batch =>
        /\ vcall.result.valid = SelectSeq(vcall.files, Valid)
        /\ vcall.result.invalid = SelectSeq(vcall.files, Invalid)
        /\ Len(vcall.result.valid) + Len(vcall.result.invalid) = Len(vcall.files)
        /\ Range(vcall.result.valid) \cap Range(vcall.result.invalid) = {}
        /\ Range(vcall.result.valid) \cup Range(vcall.result.invalid) = Range(vcall.files)
        /\ Len(vcall.result.errors) = Len(vcall.result.invalid)
        /\ \A i \in DOMAIN vcall.result.errors :
              vcall.result.errors[i].file = vcall.result.invalid[i]
        /\ vcall.next = Len(vcall.files) + 1

\* the validation of the first path raised, and the valid and the invalid
\* path behind it were validated
C13_Witness ==
    /\ vcall.op = "validate_batch"
    /\ vcall.files = <<Unvalidatable, GoodDocx, TextFile>>
    /\ vcall.result.valid = <<GoodDocx>>
    /\ vcall.result.invalid = <<Unvalidatable, TextFile>>
    /\ Len(vcall.result.errors) = 2

\* C14: validate_batch on more than max_files_per_batch (100) paths validates
\* none of them and returns valid empty, invalid equal to the input list and
\* the single error 'Demasiados archivos ...'; a batch of exactly 100 paths is
\* validated normally.
C14_TooManyRefused ==
    vcall.op = "validate_batch" =>
        IF Len(vcall.files) > max_files_per_batch
        THEN /\ vcall.result.valid = <<>>
             /\ vcall.result.invalid = vcall.files
             /\ Len(vcall.result.errors) = 1
             /\ vcall.result.errors[1].text = "Demasiados archivos"
             /\ vcall.next = 0
        ELSE /\ vcall.next = Len(vcall.files) + 1
             /\ vcall.result.valid = SelectSeq(vcall.files, Valid)
             /\ \A i \in DOMAIN vcall.result.errors :
                   vcall.result.errors[i].text # "Demasiados archivos"

\* 101 paths, valid documents among them, all returned as invalid
C14_Witness ==
    /\ vcall.op = "validate_batch"
    /\ Len(vcall.files) = max_files_per_batch + 1
    /\ \E i \in DOMAIN vcall.files : Valid(vcall.files[i])
    /\ vcall.result.valid = <<>>
    /\ vcall.result.invalid = vcall.files

Constructed == cfgOp.op \in {"Config", "load_config"}

AttributeOf(section, key) == IF section = "logging" /\ key = "level" THEN "log_level" ELSE key

SetByEnv(attr) ==
    \E i \in DOMAIN EnvNames :
        env_mappings(EnvNames[i]) = attr /\ cfgSrc.env[EnvNames[i]].set

C16_FileApplied ==
    Constructed /\ cfgSrc.file.exists /\ cfgSrc.file.loads /\ cfgSrc.file.isdict =>
        \A i \in DOMAIN cfgSrc.file.sections :
            LET section == cfgSrc.file.sections[i] IN
            section.name \in {"conversion", "processing", "logging"} /\ section.isdict =>
                \A j \in DOMAIN section.items :
                    LET attr == AttributeOf(section.name, section.items[j].key) IN
                    ~SetByEnv(attr) => cfg[attr] = section.items[j].value

\* C17: each of the five CONVERTER_ variables, when set, determines its
\* attribute of a newly constructed Config, the integer attributes parsed as
\* integers; the environment is applied after config.yaml, so its value wins
\* over the default and over the file's value; a value that is not an integer
\* leaves an integer attribute as config.yaml or the default set it.
C17_EnvApplied ==
    Constructed =>
        \A i \in DOMAIN EnvNames :
            LET e == cfgSrc.env[EnvNames[i]]
                attr == env_mappings(EnvNames[i])
                previous == _load_from_file(DefaultConfig, cfgSrc.file)[attr]
            IN  e.set =>
                  IF attr \in {"max_workers", "max_file_size", "timeout"}
                  THEN IF IsIntLiteral(e.value)
                       THEN cfg[attr] = int(e.value)
                       ELSE cfg[attr] = previous
                  ELSE cfg[attr] = e.value

\* the tests' environment with a config.yaml that sets max_workers to 8 and
\* timeout to 600: the environment's 6 wins
C17_Witness ==
    /\ cfgOp.op = "Config"
    /\ cfgSrc.file = AttrYaml /\ cfgSrc.env = TestEnv
    /\ cfg.max_workers = 6 /\ cfg.max_file_size = 209715200 /\ cfg.timeout = 600
    /\ cfg.log_level = "WARNING"
    /\ cfg.default_output_dir = Dir(TRUE, <<"custom", "output">>)

\* C18 as stated: validate returns one error per violated constraint and
\* nothing else, each constraint being the one its message states: max_workers
\* not greater than 0, max_file_size not greater than 1024, timeout not
\* greater than 30, supported_extensions empty.
Reported(message) == \E i \in DOMAIN cfgOp.errors : cfgOp.errors[i] = message

C18_ValidateMessages ==
    cfgOp.op = "validate" =>
        /\ Reported("max_workers debe ser mayor a 0") <=> ~(cfg.max_workers > 0)
        /\ Reported("max_file_size debe ser mayor a 1KB") <=> ~(cfg.max_file_size > 1024)
        /\ Reported("timeout debe ser mayor a 30 segundos") <=> ~(cfg.timeout > 30)
        /\ Reported("Debe haber al menos una extension soportada")
              <=> cfg.supported_extensions = {}
        /\ Len(cfgOp.errors) =
              Cardinality({k \in 1..4 :
                  \/ k = 1 /\ ~(cfg.max_workers > 0)
                  \/ k = 2 /\ ~(cfg.max_file_size > 1024)
                  \/ k = 3 /\ ~(cfg.timeout > 30)
                  \/ k = 4 /\ cfg.supported_extensions = {}})

\* C19 as stated: when the loaded configuration fails validation, load_config
\* returns a Config that holds the default values, on which validate reports
\* no error.
C19_FallsBackToDefault ==
    cfgOp.op = "load_config" /\ cfgOp.errors # <<>> =>
        /\ cfg = DefaultConfig
        /\ validate(cfg) = <<>>

\* C20 as stated: get_output_path returns a path inside default_output_dir
\* whose name is the input's stem followed by '.pdf', for relative and
\* absolute inputs alike; with create_subdirs the input's parent directories
\* are reproduced below default_output_dir, and no directory is made outside
\* default_output_dir.
IsPrefix(q, r) == Len(q) <= Len(r) /\ SubSeq(r, 1, Len(q)) = q

Inside(d, base) ==
    /\ d.abs = base.abs
    /\ IsPrefix(base.parts, d.parts)
    /\ \A i \in DOMAIN d.parts : i > Len(base.parts) => d.parts[i] # ".."

C20_InsideOutputDir ==
    cfgOp.op = "get_output_path" /\ ~cfgOp.raised =>
        /\ cfgOp.output.stem = cfgOp.input.stem
        /\ cfgOp.output.ext = ".pdf"
        /\ Inside(cfgOp.output.dir, cfg.default_output_dir)
        /\ Inside(cfgOp.made, cfg.default_output_dir)
        /\ cfg.create_subdirs =>
              cfgOp.output.dir = Dir(cfg.default_output_dir.abs,
                                     cfg.default_output_dir.parts \o cfgOp.input.dir.parts)

(***************************************************************************)
(* C23: reset_stats restarts the statistics.                               *)
(***************************************************************************)
\* the stats that process_files(files, dir) returns on a processor whose
\* stats are those of the constructor (parallel_processor.py lines 28-35)
FirstCallStats(files, dir, workers) ==
    LET valid == _validate_input_files(files)
        begun == [InitStats EXCEPT !.total_files = Len(files)]
        ok == {i \in DOMAIN valid :
                 LET f == WorkerOutcome(valid[i], _get_output_path(valid[i], dir)) IN
                 f.kind = "result" /\ f.val[1]}
    IN  IF valid = <<>> \/ ~MkdirOk(dir) \/ workers < 1
        THEN _create_error_result(begun, "").stats
        ELSE _calculate_final_stats(
                 [begun EXCEPT !.successful_conversions = Cardinality(ok),
                               !.failed_conversions = Len(valid) - Cardinality(ok)])

StatsCounters(st) ==
    <<st.total_files, st.processed_files, st.successful_conversions,
      st.failed_conversions, st.success_rate>>

\* C23: a process_files call made right after reset_stats (and, likewise, the
\* first call on a new processor) returns the stats counters total_files,
\* processed_files, successful_conversions, failed_conversions and
\* success_rate that the same call returns on a newly constructed
\* ParallelProcessor.
C23_ResetRestarts ==
    (pc = "returned" /\ fresh)
        => StatsCounters(returned.stats)
             = StatsCounters(FirstCallStats(input_files, output_dir, max_workers))

\* a second call, made after a first one and reset_stats, returns its result
\* with a conversion that succeeded and one that failed
C23_Witness ==
    /\ pc = "returned" /\ fresh /\ handled > Len(input_files)
    /\ returned.kind = "normal"
    /\ returned.successful # <<>> /\ returned.failed # <<>>

(***************************************************************************)
(* C24: exceptions inside process_files.                                   *)
(***************************************************************************)
\* the shape of what _create_error_result returns for the current call
ErrorResultShape ==
    /\ returned.kind = "error"
    /\ returned.successful = <<>> /\ returned.failed = <<>>
    /\ Len(returned.errors) = 1
    /\ returned.stats.processed_files = 0
    /\ returned.stats.successful_conversions = 0
    /\ returned.stats.failed_conversions = 0
    /\ returned.stats.total_files = Len(input_files)

\* the output directory or the pool of the current call could not be created
SetupRaised == valid_files # <<>> /\ (~MkdirOk(output_dir) \/ max_workers < 1)

\* future.result() raised for some task of the current call
ResultRaised == \E i \in Tasks : fut[i].kind = "exception"

\* C24 as stated: whenever an exception was raised during output directory
\* creation, pool creation or result collection, process_files returns an
\* error result with empty 'successful' and 'failed' lists, one message in
\* 'errors', 0 processed, successful and failed files and
\* total_files = len(input_files).
C24_ErrorResultOnException ==
    (pc = "returned" /\ (SetupRaised \/ ResultRaised)) => ErrorResultShape

\* C24 (amended): process_files returns a result whatever is raised.  An
\* exception of output directory or pool creation (an invalid max_workers
\* included) gives the error result with empty 'successful' and 'failed'
\* lists, one message, 0 processed, successful and failed files and
\* total_files = len(input_files); an exception raised by future.result()
\* during result collection gives a normal result in which that file has one
\* 'failed' entry.
C24_CaughtWhereRaised ==
    pc = "returned" =>
        /\ returned.kind \in {"normal", "error"}
        /\ SetupRaised => ErrorResultShape
        /\ ResultRaised =>
             /\ returned.kind = "normal"
             /\ \A i \in Tasks : fut[i].kind = "exception" =>
                  InputCount(returned.failed, valid_files[i])
                    = Count(valid_files, valid_files[i])

\* a call on a processor that has counted a success, made after
\* set_max_workers(0), has returned
C24_Witness ==
    /\ pc = "returned" /\ SetupRaised /\ max_workers < 1
    /\ stats.successful_conversions > 0
    /\ returned.kind = "error"

(***************************************************************************)
(* C25: a call in which nothing passes pre-validation.                     *)
(***************************************************************************)
\* C25: a process_files call in which no input file passes pre-validation
\* (an empty input list included) submits no conversion task, starts no
\* worker, creates no output directory, leaves successful_conversions and
\* failed_conversions as they were, and returns the error result
\* 'No hay archivos validos para procesar' with total_files = len(input_files).
C25_NothingValidFrame ==
    [][(pc = "idle" /\ pc' # "idle" /\ valid_files' = <<>>) =>
          /\ pc' = "returned"
          /\ task' = <<>> /\ submits' = <<>> /\ fut' = <<>>
          /\ dirs' = dirs
          /\ Counters(stats') = Counters(stats)
          /\ returned'.kind = "error"
          /\ returned'.successful = <<>> /\ returned'.failed = <<>>
          /\ returned'.errors
               = <<[file |-> "", text |-> "No hay archivos validos para procesar"]>>
          /\ returned'.stats.total_files = Len(input_files')]_vars

\* a call with input files of which none is valid has returned, on a
\* processor that has counted a conversion and has made no directory
C25_Witness ==
    /\ pc = "returned" /\ valid_files = <<>> /\ input_files # <<>>
    /\ returned.kind = "error"
    /\ stats.failed_conversions > 0
    /\ "out" \in dirs

(***************************************************************************)
(* C26: the fan-in terminates.                                             *)
(***************************************************************************)
\* process_files is inside _process_parallel
InPool == pc \in {"submit", "collect"}

\* C26: when every conversion task terminates and the pool's processes are
\* scheduled fairly, a process_files call that has entered _process_parallel
\* eventually returns a result, for every number of validated files and
\* every max_workers >= 1 (more files than workers included).
C26_FanInTerminates == InPool ~> (pc = "returned")

\* a call with more validated files than workers has returned
C26_Witness ==
    /\ pc = "returned" /\ returned.kind = "normal"
    /\ Len(valid_files) > max_workers
    /\ \A i \in Tasks : task[i] = "recorded"

(***************************************************************************)
(* C27: bounds of the returned stats.                                      *)
(***************************************************************************)
\* C27: the stats of every result process_files returns satisfy
\* 0 <= success_rate <= 100 and
\* successful_conversions + failed_conversions <= total_files of that call,
\* whatever calls (and reset_stats) came before on the same processor.
C27_StatsBounds ==
    pc = "returned" =>
        /\ returned.stats.success_rate.num >= 0
        /\ RatLeq(returned.stats.success_rate, 100)
        /\ returned.stats.successful_conversions + returned.stats.failed_conversions
             <= returned.stats.total_files
        /\ returned.stats.total_files = Len(input_files)

(***************************************************************************)
(* C28: total_time.                                                        *)
(***************************************************************************)
\* C28: with a clock that never goes backwards, the total_time in the stats
\* of a result that process_files returns after converting is non-negative
\* and is the time of this call, from its start (line 51) to its end
\* (line 68), on the first call and on every later one.
C28_TotalTimeOfThisCall ==
    NormalReturn =>
        /\ returned.stats.total_time >= 0
        /\ returned.stats.total_time = stats.end_time - stats.start_time

(***************************************************************************)
(* C29: the converter's counters.                                          *)
(***************************************************************************)
Converted(c) == c.successful_conversions + c.failed_conversions

\* C29: every convert_document call changes the converter's counters by
\* exactly one in total: successful_conversions by 1 and failed_conversions
\* by 0 when it returns True, failed_conversions by 1 and
\* successful_conversions by 0 when it raises; and successful_conversions +
\* failed_conversions is always the number of calls made since the converter
\* was constructed or last reset.
C29_OneCountPerCall ==
    [][/\ Converted(conv') = convSince'
       /\ convSince' = convSince + 1 =>
            LET ds == conv'.successful_conversions - conv.successful_conversions
                df == conv'.failed_conversions - conv.failed_conversions
            IN  /\ ds + df = 1 /\ ds \in {0, 1} /\ df \in {0, 1}
                /\ ds = 1 <=> lastConv'.out = Return(TRUE)
                /\ df = 1 <=> lastConv'.out.kind = "raise"]_vars

\* a converter that has counted a success, then a failure of generate_pdf
C29_Witness ==
    /\ lastConv.called /\ lastConv.out.kind = "raise"
    /\ lastConv.a.exists /\ lastConv.dirOk /\ lastConv.a.content = "unrenderable"
    /\ lastConv.p.ext = ".docx"
    /\ conv.successful_conversions = 1 /\ conv.failed_conversions = 1
    /\ convSince = 2

(***************************************************************************)
(* C21: validate_directory_batch.                                          *)
(***************************************************************************)
DirectoryBatchReturned == vcall.op = "validate_directory_batch"

ReadableDirectory(d) == d.exists /\ d.is_dir /\ d.readable

\* the files under d that pass FileValidator.validate_file
ValidUnder(d) == {p \in Range(d.files) : validate_file(p, DiskAt(p))[1]}

SingleError ==
    /\ vcall.result.valid = <<>> /\ vcall.result.invalid = <<>>
    /\ Len(vcall.result.errors) = 1

\* C21 as stated: for a readable directory the 'valid' list holds every file
\* under it that passes validate_file, whatever their number; for a missing
\* directory or one without valid files the result is empty 'valid' and
\* 'invalid' lists and a single error.
C21_AllValidFiles ==
    DirectoryBatchReturned =>
        /\ ReadableDirectory(vcall.dir) =>
             ValidUnder(vcall.dir) \subseteq Range(vcall.result.valid)
        /\ (~vcall.dir.exists \/ ValidUnder(vcall.dir) = {}) => SingleError

\* C21 (amended): for a readable directory with at most max_files_per_batch
\* valid files, 'valid' is the list of the files under it that pass
\* validate_file and 'invalid' and 'errors' are empty; with more valid files
\* than that, 'valid' is empty, 'invalid' lists them all and 'errors' holds
\* the one message of the batch limit; for a directory that is missing, is
\* not a directory, cannot be read or holds no valid file, 'valid' and
\* 'invalid' are empty and 'errors' holds a single message.
C21_ValidFilesUpToLimit ==
    DirectoryBatchReturned =>
        LET d == vcall.dir
            found == get_valid_files_in_directory(d)
        IN  IF ~ReadableDirectory(d) \/ ValidUnder(d) = {}
            THEN SingleError
            ELSE IF Cardinality(ValidUnder(d)) <= max_files_per_batch
            THEN /\ vcall.result.valid = found
                 /\ Range(found) = ValidUnder(d)
                 /\ vcall.result.invalid = <<>> /\ vcall.result.errors = <<>>
            ELSE /\ vcall.result.valid = <<>>
                 /\ vcall.result.invalid = found
                 /\ vcall.result.errors
                      = <<[file |-> NoPath, text |-> "Demasiados archivos"]>>

\* a directory with max_files_per_batch valid files and one other file was
\* validated
C21_Witness ==
    /\ DirectoryBatchReturned
    /\ Len(vcall.result.valid) = max_files_per_batch
    /\ Len(vcall.dir.files) > max_files_per_batch

(***************************************************************************)
(* C22: where the log records go.                                          *)
(***************************************************************************)
\* the program's last setup_logger call was
\* setup_logger(log_file=log_file, console_output=False)
SetUpWithFile(log_file) ==
    /\ loggers["doc_converter"].handlers
    /\ loggers["doc_converter"].level = "INFO"
    /\ loggers["doc_converter"].log_file = log_file
    /\ ~loggers["doc_converter"].console

\* C22: after setup_logger(log_file=F, console_output=False), a record logged
\* on a logger that get_logger(name) returned afterwards, whatever the name
\* (the logger of a LoggerMixin component such as DocumentConverter
\* included), is written to the file F.
C22_LoggedToFile ==
    [][\A F \in LogFiles :
         (SetUpWithFile(F) /\ logCalls' = logCalls + 1)
            => lastLog' \in logged'[F]]_vars

(***************************************************************************)
(* C30: the batch command validates before it converts.                    *)
(***************************************************************************)
\* process_files has been called, a task exists or a directory was made
ConversionStarted == pc # "idle" \/ handled > 0 \/ Tasks # {} \/ dirs # {}

\* validate_batch has returned to the batch command
ValidationFinished == vcall.op = "validate_batch"

\* nothing was discovered, or validate_batch found nothing valid
NothingToConvert ==
    \/ cmd.at # "start" /\ cmd.files = <<>>
    \/ cmd.at # "start" /\ ValidationFinished /\ vcall.result.valid = <<>>

\* C30: in the batch command, process_files is called only after
\* validate_batch has returned, and with the files validate_batch reported
\* valid and no others; when no file was discovered or none is valid (more
\* than max_files_per_batch discovered files included) the command ends with
\* status 1 and never with status 0, no processor is created, no worker is
\* started and no output directory is created.
C30_ValidateThenConvert ==
    /\ ConversionStarted =>
         /\ ValidationFinished /\ cmd.processor
         /\ input_files = vcall.result.valid
         /\ Range(input_files) \subseteq
              {p \in Range(cmd.files) : validate_file(p, DiskAt(p))[1]}
    /\ cmd.processor => ValidationFinished /\ vcall.result.valid # <<>>
    /\ NothingToConvert =>
         /\ cmd.at \in {"found", "exit1"}
         /\ ~cmd.processor /\ ~ConversionStarted
    /\ Len(cmd.files) > max_files_per_batch /\ ValidationFinished => NothingToConvert
    /\ cmd.at = "exit1" => NothingToConvert

\* a command that found a valid and an invalid file has converted the valid
\* one and ended
C30_Witness ==
    /\ cmd.at = "exit0"
    /\ Len(input_files) < Len(cmd.files)
    /\ returned.successful # <<>>

====
